---- MODULE Spec2Model ----
(***************************************************************************)
(* The connection-pool pipeline of the HTTP client: callers run            *)
(* Request::send (client/src/request.rs), with the pool chosen as in       *)
(* PoolService::call (client/src/pool/mod.rs), against the exclusive and   *)
(* the shared pool.                                                        *)
(* The two pool modules (pool::exclusive, pool::shared) are declared in    *)
(* pool/mod.rs lines 19-25 but their files are not part of the sources;    *)
(* their operations are written from the specification, sections 3, 4.3,   *)
(* 5 and 9.                                                                *)
(***************************************************************************)
EXTENDS Integers, Sequences, FiniteSets, TLC

\* Number of concurrent callers.
NumTasks == 2
\* Number of connections that can be established in one behaviour.
MaxConns == 2

Tasks == 1..NumTasks
Conns == 1..MaxConns
None == 0

\* Pool keys: Endpoint values (pool/endpoint.rs), with the max_http_version
\* field PoolService::call reads.
Endpoints ==
    { [kind |-> "Address", max_http_version |-> "HTTP_11"],
      [kind |-> "Secure",  max_http_version |-> "HTTP_2"] }

NoEndpoint == [kind |-> "None", max_http_version |-> "None"]

VARIABLES
    pc,        \* where each caller is in send()
    key,       \* the endpoint the caller's operation is for
    variant,   \* what the caller holds: None, a Spawner or a Conn of one pool
    conn,      \* the connection the caller's handle refers to
    destroy,   \* the handle's destroy_on_drop flag
    pool,      \* PoolService.exclusive_pool and PoolService.shared_pool
    connKey,   \* the endpoint each established connection was dialed for
    proto,     \* the protocol each established connection speaks
    fate,      \* per connection: what its requests have reported so far
    last,      \* what the latest step returned, and its handle's flag, if it was a return
    resolve,   \* one DefaultResolver::call: its input, the lookup's answer, its output
    dial,      \* one dial and request: Connect, phase, request version, result
    tunnel,    \* one Tunnel: its mutex, its two halves, the connection it wraps
    body,      \* one ResponseBody and the caller polling it
    select,    \* one choice among candidate endpoints, by their states
    pg,        \* one execute or query against a postgres Pool
    reuse      \* the connections pooled per endpoint, and what call returned

\* The state of the resolver, of the single dial, of the tunnel and of the
\* body, which the pools' callers leave alone.
others == <<resolve, dial, tunnel, body, select, pg, reuse>>

vars == <<pc, key, variant, conn, destroy, pool, connKey, proto, fate, last, resolve, dial,
          tunnel, body, select, pg, reuse>>

----------------------------------------------------------------------------
\* Two other dispatch rules, to compare the properties against: HTTP/2 sent
\* to the exclusive pool, and HTTP/1.1 sent to the shared pool.
UseSharedOnlyH3(e) == e.max_http_version = "HTTP_3"

UseSharedAlsoH1(e) == e.max_http_version \in {"HTTP_11", "HTTP_2", "HTTP_3"}

\* PoolService::call, mod.rs 54-55 and 63: HTTP/2 and HTTP/3 endpoints use the
\* shared pool, every other version the exclusive pool.
UseShared(e) == e.max_http_version \in {"HTTP_2", "HTTP_3"}

\* The Connection variant a dial for endpoint e yields (request.rs 195-247
\* matches on it): h2 and h3 for the multiplexed versions, otherwise the
\* stream kind of the endpoint.
ConnectionOf(e) ==
    CASE e.max_http_version = "HTTP_2" -> "H2"
      [] e.max_http_version = "HTTP_3" -> "H3"
      [] e.kind = "Secure" -> "Tls"
      [] e.kind = "Unix" -> "Unix"
      [] OTHER -> "Tcp"

IsH1(c) == proto[c] \in {"Tcp", "Tls", "Unix"}

IsMultiplexed(c) == proto[c] \in {"H2", "H3"}

Range(s) == { s[i] : i \in DOMAIN s }

----------------------------------------------------------------------------
\* The pools.  exclusive: per key a queue of idle connections and whether a
\* Spawner is outstanding.  shared: per key the resident connection, whether
\* a Spawner is outstanding, and per connection the reference count.
EmptyPool ==
    [ exclIdle       |-> [e \in Endpoints |-> <<>>],
      exclSpawning   |-> [e \in Endpoints |-> FALSE],
      sharedConn     |-> [e \in Endpoints |-> None],
      sharedSpawning |-> [e \in Endpoints |-> FALSE],
      refs           |-> [c \in Conns |-> 0],
      closed         |-> {} ]

\* exclusive::Pool::acquire: an idle Conn, else a Spawner when no dial is
\* outstanding for the key, else the caller waits for the dial's outcome.
ExclusiveAcquireOutput(p, e) ==
    IF p.exclIdle[e] # <<>> THEN "Conn"
    ELSE IF p.exclSpawning[e] THEN "Wait"
    ELSE "Spawner"

\* shared::Pool::acquire: a handle to the resident connection, else a Spawner
\* when no dial is outstanding, else the caller waits.
SharedAcquireOutput(p, e) ==
    IF p.sharedConn[e] # None THEN "Conn"
    ELSE IF p.sharedSpawning[e] THEN "Wait"
    ELSE "Spawner"

AcquireOutput(p, e) ==
    IF UseShared(e) THEN SharedAcquireOutput(p, e) ELSE ExclusiveAcquireOutput(p, e)

\* The connection an acquire that outputs "Conn" hands out.
AcquiredConn(p, e) ==
    IF UseShared(e) THEN p.sharedConn[e] ELSE Head(p.exclIdle[e])

\* The pool after an acquire on e.
PoolAfterAcquire(p, e) ==
    IF UseShared(e)
    THEN CASE SharedAcquireOutput(p, e) = "Conn" ->
                  [p EXCEPT !.refs[p.sharedConn[e]] = @ + 1]
           [] SharedAcquireOutput(p, e) = "Spawner" ->
                  [p EXCEPT !.sharedSpawning[e] = TRUE]
           [] OTHER -> p
    ELSE CASE ExclusiveAcquireOutput(p, e) = "Conn" ->
                  [p EXCEPT !.exclIdle[e] = Tail(@)]
           [] ExclusiveAcquireOutput(p, e) = "Spawner" ->
                  [p EXCEPT !.exclSpawning[e] = TRUE]
           [] OTHER -> p

\* What the caller holds after an acquire with output out.
VariantAfterAcquire(e, out) ==
    CASE out = "Conn" -> IF UseShared(e) THEN "Shared" ELSE "Exclusive"
      [] out = "Spawner" -> IF UseShared(e) THEN "SharedSpawner" ELSE "ExclSpawner"
      [] OTHER -> "None"

\* Spawner::spawned(c): the dial succeeded.  Exclusive: the connection goes to
\* the dialing caller, checked out.  Shared: the connection becomes resident
\* and the n callers queued on the key each get a handle to it.
PoolAfterSpawned(p, v, e, c, n) ==
    CASE v = "ExclSpawner" -> [p EXCEPT !.exclSpawning[e] = FALSE]
      [] v = "SharedSpawner" ->
             [p EXCEPT !.sharedSpawning[e] = FALSE,
                       !.sharedConn[e] = c,
                       !.refs[c] = 1 + n]
      [] OTHER -> p

\* Dropping a Spawner that was not fulfilled: the dial failed.
PoolAfterSpawnerDrop(p, v, e) ==
    CASE v = "ExclSpawner" -> [p EXCEPT !.exclSpawning[e] = FALSE]
      [] v = "SharedSpawner" -> [p EXCEPT !.sharedSpawning[e] = FALSE]
      [] OTHER -> p

\* Dropping a Conn.  Exclusive: reinserted as idle unless destroy_on_drop.
\* Shared: the count is decremented, and the connection leaves the pool only
\* when the count reaches zero and this handle was marked destroy_on_drop.
PoolAfterConnDrop(p, v, e, c, d) ==
    CASE v = "Exclusive" ->
             IF d THEN [p EXCEPT !.closed = @ \cup {c}]
             ELSE [p EXCEPT !.exclIdle[e] = Append(@, c)]
      [] v = "Shared" ->
             IF p.refs[c] - 1 = 0 /\ d
             THEN [p EXCEPT !.refs[c] = 0,
                            !.sharedConn[e] = None,
                            !.closed = @ \cup {c}]
             ELSE [p EXCEPT !.refs[c] = @ - 1]
      [] OTHER -> p

PoolAfterDrop(p, v, e, c, d) ==
    IF v \in {"ExclSpawner", "SharedSpawner"}
    THEN PoolAfterSpawnerDrop(p, v, e)
    ELSE PoolAfterConnDrop(p, v, e, c, d)

----------------------------------------------------------------------------
NoReturn == [res |-> "none", destroy |-> FALSE]

\* No resolver call and no dial in progress.
NoResolve == [stage |-> "unused"]

NoDial == [phase |-> "unused"]

\* No tunnel and no body in use.
NoTunnel == [lock |-> "unused"]

NoBody == [kind |-> "unused"]

\* No selection and no postgres statement in progress.
NoSelect == [stage |-> "unused"]

NoPg == [pc |-> "unused"]

NoReuse == [stage |-> "unused"]

Init ==
    /\ pc = [t \in Tasks |-> "idle"]
    /\ key = [t \in Tasks |-> NoEndpoint]
    /\ variant = [t \in Tasks |-> "None"]
    /\ conn = [t \in Tasks |-> None]
    /\ destroy = [t \in Tasks |-> FALSE]
    /\ pool = EmptyPool
    /\ connKey = <<>>
    /\ proto = <<>>
    /\ fate = [c \in Conns |-> "none"]
    /\ last = NoReturn
    /\ resolve = NoResolve
    /\ dial = NoDial
    /\ tunnel = NoTunnel
    /\ body = NoBody
    /\ select = NoSelect
    /\ pg = NoPg
    /\ reuse = NoReuse

\* A send that dials whatever the pool handed back, to compare against.
AfterAcquireAlwaysDial(isNone) == "dial"

\* request.rs 170-187: after the acquire, send dials exactly when the pool
\* handed back no connection.
AfterAcquire(isNone) == IF isNone THEN "dial" ELSE "send"

\* The caller's side of an acquire on e: what it holds and where it goes;
\* onConn, onSpawner and onWait are the caller's continuations.
Acquired(t, e, onConn, onSpawner, onWait) ==
    LET out == AcquireOutput(pool, e) IN
    /\ key' = [key EXCEPT ![t] = e]
    /\ pool' = PoolAfterAcquire(pool, e)
    /\ variant' = [variant EXCEPT ![t] = VariantAfterAcquire(e, out)]
    /\ conn' = [conn EXCEPT ![t] = IF out = "Conn" THEN AcquiredConn(pool, e) ELSE None]
    /\ pc' = [pc EXCEPT ![t] = CASE out = "Conn" -> onConn
                                 [] out = "Spawner" -> onSpawner
                                 [] OTHER -> onWait]
    /\ last' = NoReturn
    /\ UNCHANGED <<destroy, connKey, proto, fate, others>>

\* The operation of caller t returns r; the handle it held goes out of scope
\* with destroy_on_drop = d.
Returned(t, r, d) ==
    /\ pool' = PoolAfterDrop(pool, variant[t], key[t], conn[t], d)
    /\ last' = [res |-> r, destroy |-> d]
    /\ pc' = [pc EXCEPT ![t] = "idle"]
    /\ key' = [key EXCEPT ![t] = NoEndpoint]
    /\ variant' = [variant EXCEPT ![t] = "None"]
    /\ conn' = [conn EXCEPT ![t] = None]
    /\ destroy' = [destroy EXCEPT ![t] = FALSE]

\* Request::send, request.rs 165-187: the pool acquire.
SendAcquire(t, e) ==
    /\ pc[t] = "idle"
    /\ Acquired(t, e, AfterAcquire(FALSE), AfterAcquire(TRUE), "wait")

\* A caller queued behind a dial acquires again once the pool can answer it.
SendRetry(t) ==
    /\ pc[t] = "wait"
    /\ AcquireOutput(pool, key[t]) # "Wait"
    /\ Acquired(t, key[t], AfterAcquire(FALSE), AfterAcquire(TRUE), "wait")

\* The callers queued on the shared pool's key e.
SharedWaiters(e) ==
    { u \in Tasks : pc[u] = "wait" /\ key[u] = e /\ UseShared(e) }

\* request.rs 183-187: make_connection succeeded and conn.add(c) registers the
\* new connection; the request phase follows.
DialOk(t) ==
    /\ pc[t] = "dial"
    /\ Len(connKey) < MaxConns
    /\ LET c == Len(connKey) + 1
           e == key[t]
           w == IF variant[t] = "SharedSpawner" THEN SharedWaiters(e) ELSE {}
       IN
       /\ connKey' = Append(connKey, e)
       /\ proto' = Append(proto, ConnectionOf(e))
       /\ pool' = PoolAfterSpawned(pool, variant[t], e, c, Cardinality(w))
       /\ conn' = [u \in Tasks |-> IF u = t \/ u \in w THEN c ELSE conn[u]]
       /\ variant' = [u \in Tasks |->
                         IF u \in w THEN "Shared"
                         ELSE IF u = t
                              THEN (IF variant[t] \in {"SharedSpawner", "Shared"}
                                    THEN "Shared" ELSE "Exclusive")
                              ELSE variant[u]]
       /\ pc' = [u \in Tasks |->
                    IF u = t THEN "send"
                    ELSE IF u \in w THEN "send"
                    ELSE pc[u]]
    /\ last' = NoReturn
    /\ UNCHANGED <<key, destroy, fate, others>>

DialErrors == {"Error", "TimeoutConnect"}

\* A failed dial whose Spawner is never released, to compare against.
DialFailKeepsSpawner(t, err) ==
    /\ pc[t] = "dial"
    /\ last' = [res |-> err, destroy |-> destroy[t]]
    /\ pc' = [pc EXCEPT ![t] = "idle"]
    /\ key' = [key EXCEPT ![t] = NoEndpoint]
    /\ variant' = [variant EXCEPT ![t] = "None"]
    /\ conn' = [conn EXCEPT ![t] = None]
    /\ UNCHANGED <<destroy, pool, connKey, proto, fate, others>>

\* request.rs 185: make_connection failed; `?` returns the error and the
\* empty handle is dropped unfulfilled.
DialFail(t, err) ==
    /\ pc[t] = "dial"
    /\ Returned(t, err, destroy[t])
    /\ UNCHANGED <<connKey, proto, fate, others>>

SendOutcomes == {"Ok", "OkClose", "Error", "Timeout"}

\* request.rs 249-269 and 214-246: whether the outcome marks the handle
\* destroy_on_drop.  is_close exists on the h1 path only.
MarksDestroy(kind, outcome) ==
    IF kind \in {"H2", "H3"}
    THEN outcome \in {"Error", "Timeout"}
    ELSE outcome \in {"OkClose", "Error", "Timeout"}

\* request.rs 250-268, 215-226, 234-245: what send returns for the outcome.
ResultOf(outcome) ==
    CASE outcome \in {"Ok", "OkClose"} -> "Ok"
      [] outcome = "Error" -> "Error"
      [] OTHER -> "TimeoutRequest"

\* What is remembered of a connection's requests: a timeout, another failure
\* or a response asking to close, or nothing of the kind.
FateAfter(f, outcome) ==
    CASE outcome = "Ok" -> f
      [] outcome = "Timeout" -> "Timeout"
      [] OTHER -> IF f = "Timeout" THEN f ELSE "Failed"

\* request.rs 195-270: the request phase ends.  On the h1 path a successful
\* response keeps the handle inside the response body; every other path
\* returns and drops the handle.
SendDone(t, outcome) ==
    /\ pc[t] = "send"
    /\ LET kind == proto[conn[t]]
           d == destroy[t] \/ MarksDestroy(kind, outcome)
           keeps == kind \in {"Tcp", "Tls", "Unix"} /\ outcome \in {"Ok", "OkClose"}
       IN
       /\ outcome = "OkClose" => kind \in {"Tcp", "Tls", "Unix"}
       /\ fate' = [fate EXCEPT ![conn[t]] = FateAfter(@, outcome)]
       /\ IF keeps
          THEN /\ pc' = [pc EXCEPT ![t] = "body"]
               /\ destroy' = [destroy EXCEPT ![t] = d]
               /\ last' = NoReturn
               /\ UNCHANGED <<key, variant, conn, pool>>
          ELSE Returned(t, ResultOf(outcome), d)
    /\ UNCHANGED <<connKey, proto, others>>

\* The h1 response body is consumed or dropped, and with it the handle.
BodyDrop(t) ==
    /\ pc[t] = "body"
    /\ Returned(t, "Ok", destroy[t])
    /\ UNCHANGED <<connKey, proto, fate, others>>

Next ==
    \/ \E t \in Tasks, e \in Endpoints : SendAcquire(t, e)
    \/ \E t \in Tasks : SendRetry(t)
    \/ \E t \in Tasks : DialOk(t)
    \/ \E t \in Tasks, err \in DialErrors : DialFail(t, err)
    \/ \E t \in Tasks, o \in SendOutcomes : SendDone(t, o)
    \/ \E t \in Tasks : BodyDrop(t)

Spec == Init /\ [][Next]_vars

\* Scheduling: a dial ends (it succeeds, fails or runs into the connect
\* deadline of mod.rs 155-163), and a caller queued on a key is served when
\* the pool can answer it again and again.
Fairness ==
    \A t \in Tasks :
        /\ WF_vars(DialOk(t) \/ \E err \in DialErrors : DialFail(t, err))
        /\ SF_vars(SendRetry(t))

FairSpec == Spec /\ Fairness

----------------------------------------------------------------------------
\* Helpers of the properties.
Dialed == 1..Len(connKey)

\* The callers that hold a checked-out handle to connection c.
Holders(c) == { t \in Tasks : conn[t] = c /\ variant[t] \in {"Exclusive", "Shared"} }

\* How often c sits in the exclusive pool's idle queues.
IdleCount(c) ==
    Cardinality({ x \in Endpoints \X (1..MaxConns) :
                    x[2] \in DOMAIN pool.exclIdle[x[1]] /\ pool.exclIdle[x[1]][x[2]] = c })

H1Endpoint(e) == ConnectionOf(e) \in {"Tcp", "Tls", "Unix"}

Dialers(e) == { t \in Tasks : pc[t] = "dial" /\ key[t] = e }

----------------------------------------------------------------------------
\* C1: in the exclusive pool at most one dial attempt (outstanding Spawner)
\* exists per key at any time, and only the Spawner's holder dials; an acquire
\* that arrives while a dial for its key is outstanding and nothing is idle
\* starts no second dial and waits.
C1_OneDialPerKey ==
    /\ [](\A e \in Endpoints : H1Endpoint(e) =>
            /\ Cardinality(Dialers(e)) <= 1
            /\ Cardinality({ t \in Tasks : key[t] = e /\ variant[t] = "ExclSpawner" }) <= 1
            /\ \A t \in Dialers(e) : variant[t] = "ExclSpawner" /\ pool.exclSpawning[e])
    /\ [][\A t \in Tasks, e \in Endpoints :
            (H1Endpoint(e) /\ Dialers(e) # {} /\ pool.exclIdle[e] = <<>>
               /\ pc[t] = "idle" /\ key'[t] = e)
            => pc'[t] = "wait"]_vars

C1_Witness ==
    \E t, u \in Tasks :
        /\ pc[t] = "dial" /\ variant[t] = "ExclSpawner"
        /\ pc[u] = "wait" /\ key[u] = key[t]

C3_SingleOwner ==
    \A c \in Dialed : IsH1(c) =>
        /\ Cardinality(Holders(c)) + IdleCount(c) = (IF c \in pool.closed THEN 0 ELSE 1)
        /\ pool.sharedConn[connKey[c]] # c

\* One connection of a key is idle while another one of the same key is
\* checked out.
C3_Witness ==
    \E t \in Tasks :
        /\ variant[t] = "Exclusive" /\ IsH1(conn[t])
        /\ pool.exclIdle[key[t]] # <<>>

\* C4: the reference count of every shared (HTTP/2, HTTP/3) connection equals
\* the number of live handles to it, and the connection is idle (resident
\* with no handle attached) only with a count of zero.
C4_RefCount ==
    \A c \in Dialed : IsMultiplexed(c) =>
        /\ pool.refs[c] = Cardinality(Holders(c))
        /\ (pool.sharedConn[connKey[c]] = c /\ Holders(c) = {}) => pool.refs[c] = 0
        /\ Holders(c) # {} => pool.sharedConn[connKey[c]] = c
        /\ IdleCount(c) = 0

C4_Witness ==
    \E c \in Dialed : IsMultiplexed(c) /\ pool.refs[c] = NumTasks

\* The live shared connection of endpoint e, if there is one.
LiveShared(e) == { c \in Dialed : connKey[c] = e /\ IsMultiplexed(c) /\ c \notin pool.closed }

\* C5: while a live shared connection exists for a key, no caller holds a
\* Spawner, dials or waits on that key; every acquire on the key returns a
\* handle to that connection and raises its count by one, and every drop of
\* a handle lowers it by one, so N acquires and N drops leave the count as
\* it was.
C5_SharedReuse ==
    /\ [](\A e \in Endpoints : LiveShared(e) # {} =>
            \A t \in Tasks : key[t] = e =>
                /\ pc[t] \notin {"dial", "wait"}
                /\ variant[t] \notin {"SharedSpawner", "ExclSpawner"})
    /\ [][\A t \in Tasks, e \in Endpoints, c \in Conns :
            /\ (c \in LiveShared(e) /\ pc[t] = "idle" /\ key'[t] = e)
                 => /\ conn'[t] = c
                    /\ pc'[t] = "send"
                    /\ pool'.refs[c] = pool.refs[c] + 1
            /\ (c \in LiveShared(e) /\ conn[t] = c /\ pc'[t] = "idle")
                 => pool'.refs[c] = pool.refs[c] - 1]_vars

\* A request on the live connection has just returned while another caller
\* is still attached to it.
C5_Witness ==
    \E c \in Dialed :
        /\ c \in LiveShared(connKey[c])
        /\ pool.refs[c] = 1
        /\ Len(connKey) = 1
        /\ last.res = "Ok"

MultiplexedEndpoint(e) == ConnectionOf(e) \in {"H2", "H3"}

\* C6: on a shared-pool key at most one caller dials, whatever the number of
\* concurrent acquires; when the dial succeeds, every caller queued on the
\* key holds a handle to the connection it produced.
C6_OneDialBroadcast ==
    /\ [](\A e \in Endpoints : MultiplexedEndpoint(e) =>
            /\ Cardinality(Dialers(e)) <= 1
            /\ (Dialers(e) # {} => LiveShared(e) = {}))
    /\ [][\A t \in Tasks, e \in Endpoints :
            (/\ MultiplexedEndpoint(e)
             /\ pc[t] = "wait" /\ key[t] = e
             /\ Len(connKey') = Len(connKey) + 1
             /\ connKey'[Len(connKey')] = e)
            => /\ conn'[t] = Len(connKey')
               /\ pc'[t] = "send"
               /\ pool'.sharedConn[e] = Len(connKey')
               /\ variant'[t] = "Shared"
               /\ pool'.refs[Len(connKey')] =
                      Cardinality({ u \in Tasks : conn'[u] = Len(connKey') })]_vars

\* A caller is queued behind the dial of a shared-pool key, and the dial can
\* still succeed.
C6_Witness ==
    \E t, u \in Tasks :
        /\ pc[t] = "dial" /\ variant[t] = "SharedSpawner"
        /\ pc[u] = "wait" /\ key[u] = key[t]
        /\ Len(connKey) < MaxConns

----------------------------------------------------------------------------
\* Connection c sits in its pool with no caller attached.
IdleInPool(c) ==
    \/ IdleCount(c) > 0
    \/ pool.sharedConn[connKey[c]] = c /\ pool.refs[c] = 0

\* C7: a connection on which a request failed (an error or a timeout) or whose
\* response reported is_close is never idle in its pool afterwards, and no
\* later acquire hands it out, whatever its protocol.
C7_FailedNeverReused ==
    /\ [](\A c \in Dialed : fate[c] # "none" => ~IdleInPool(c))
    /\ [][\A t \in Tasks, c \in Conns :
            (c \in Dialed /\ fate[c] # "none" /\ conn[t] # c) => conn'[t] # c]_vars

\* C8: a request on a shared HTTP/2 connection that exceeds its deadline
\* returns Timeout::Request, and once a request on the connection has timed
\* out no acquire returns that connection, however many other handles were
\* attached to it.
C8_TimedOutNotReacquired ==
    [][\A t \in Tasks, c \in Conns :
         (c \in Dialed /\ proto[c] = "H2") =>
            /\ (pc[t] = "send" /\ conn[t] = c /\ fate[c] # "Timeout" /\ fate'[c] = "Timeout")
                 => last'.res = "TimeoutRequest"
            /\ (fate[c] = "Timeout" /\ conn[t] # c) => conn'[t] # c]_vars

\* C9: dropping a handle to a shared connection lowers the count by one; the
\* connection leaves the shared pool exactly when the count reaches zero and
\* the dropped handle was marked destroy_on_drop, and in every other case it
\* stays resident and an acquire on its key returns it.
C9_SharedDrop ==
    [][\A t \in Tasks, c \in Conns :
         (c \in Dialed /\ IsMultiplexed(c) /\ conn[t] = c /\ conn'[t] # c) =>
            /\ pool'.refs[c] = pool.refs[c] - 1
            /\ (pool'.sharedConn[connKey[c]] # c) <=> (pool'.refs[c] = 0 /\ last'.destroy)
            /\ (pool'.sharedConn[connKey[c]] # c) <=> (c \in pool'.closed)
            /\ (pool'.sharedConn[connKey[c]] = c) =>
                   /\ AcquireOutput(pool', connKey[c]) = "Conn"
                   /\ AcquiredConn(pool', connKey[c]) = c]_vars

\* A handle marked destroy_on_drop has been dropped while another caller was
\* attached: the connection is still resident.
C9_Witness ==
    \E c \in Dialed :
        /\ IsMultiplexed(c)
        /\ Len(connKey) = 1
        /\ last.destroy
        /\ pool.sharedConn[connKey[c]] = c
        /\ pool.refs[c] >= 1

\* C10: dropping a checked-out exclusive connection appends it to the idle
\* queue of its key exactly when its handle was not marked destroy_on_drop;
\* a marked one is closed and is never idle again.
C10_ExclusiveDrop ==
    /\ [](\A c \in Dialed : (IsH1(c) /\ c \in pool.closed) => IdleCount(c) = 0)
    /\ [][\A t \in Tasks, c \in Conns :
            (c \in Dialed /\ IsH1(c) /\ conn[t] = c /\ conn'[t] # c) =>
               /\ (c \in Range(pool'.exclIdle[connKey[c]])) <=> ~last'.destroy
               /\ (c \in pool'.closed) <=> last'.destroy]_vars

\* One connection of a key was dropped marked and is closed, another one of
\* the same key was dropped unmarked and is idle.
C10_Witness ==
    \E c, d \in Dialed :
        /\ IsH1(c) /\ c \in pool.closed
        /\ connKey[d] = connKey[c] /\ d \in Range(pool.exclIdle[connKey[d]])

----------------------------------------------------------------------------
\* PoolService::call, mod.rs 53-73, run by callers next to those of send.
\* A Conn from the pool is returned to the caller; with a Spawner the body
\* runs into unreachable!("") at line 73: the call panics, and the unwinding
\* drops the Spawner it had just been given.
CallAcquired(t, e) ==
    IF AcquireOutput(pool, e) = "Spawner"
    THEN /\ last' = [res |-> "Panic", destroy |-> FALSE]
         /\ pc' = [pc EXCEPT ![t] = "idle"]
         /\ key' = [key EXCEPT ![t] = NoEndpoint]
         /\ UNCHANGED <<variant, conn, destroy, pool, connKey, proto, fate, others>>
    ELSE Acquired(t, e, "own", "idle", "cwait")

Call(t, e) ==
    /\ pc[t] = "idle"
    /\ CallAcquired(t, e)

\* A call queued behind a dial acquires again once the pool can answer it.
CallRetry(t) ==
    /\ pc[t] = "cwait"
    /\ AcquireOutput(pool, key[t]) # "Wait"
    /\ CallAcquired(t, key[t])

\* The caller of PoolService::call drops the Connection it was given, marked
\* destroy_on_drop (d) or not.
OwnerDrop(t, d) ==
    /\ pc[t] = "own"
    /\ Returned(t, "Ok", d)
    /\ UNCHANGED <<connKey, proto, fate, others>>

\* A dial that hands its HTTP/1.1 connection to the shared pool all the same,
\* to compare against.
FallbackPoolAdds(p, e, c) == PoolAfterSpawned(p, "SharedSpawner", e, c, 0)

\* mod.rs 29-37 and 111-121, endpoint.rs 86-89: a dial yields a
\* ConnectionExclusive, and the shared pool's Spawner takes a ConnectionShared
\* only; an HTTP/1.1 connection dialed for a shared key is not added to the
\* pool ("if not we drop it"), and the Spawner is dropped unfulfilled.
FallbackPool(p, e, c) == PoolAfterSpawnerDrop(p, "SharedSpawner", e)

\* The dial for an HTTP/2 key reaches a server whose TLS negotiation ends on
\* HTTP/1.1 (make_exclusive, mod.rs 130-139): the caller goes on with a
\* connection that belongs to no pool.
DialFallback(t) ==
    /\ pc[t] = "dial"
    /\ variant[t] = "SharedSpawner"
    /\ key[t].kind = "Secure"
    /\ Len(connKey) < MaxConns
    /\ LET c == Len(connKey) + 1
           e == key[t]
       IN
       /\ connKey' = Append(connKey, e)
       /\ proto' = Append(proto, "Tls")
       /\ pool' = FallbackPool(pool, e, c)
       /\ conn' = [conn EXCEPT ![t] = c]
       /\ variant' = [variant EXCEPT ![t] = "Unpooled"]
       /\ pc' = [pc EXCEPT ![t] = "send"]
    /\ last' = NoReturn
    /\ UNCHANGED <<key, destroy, fate, others>>

CallNext ==
    \/ \E t \in Tasks, e \in Endpoints : SendAcquire(t, e)
    \/ \E t \in Tasks : SendRetry(t)
    \/ \E t \in Tasks : DialOk(t)
    \/ \E t \in Tasks, err \in DialErrors : DialFail(t, err)
    \/ \E t \in Tasks, o \in SendOutcomes : SendDone(t, o)
    \/ \E t \in Tasks : BodyDrop(t)
    \/ \E t \in Tasks, e \in Endpoints : Call(t, e)
    \/ \E t \in Tasks : CallRetry(t)
    \/ \E t \in Tasks, d \in BOOLEAN : OwnerDrop(t, d)

CallSpec == Init /\ [][CallNext]_vars

\* C11: PoolService::call never panics: whatever the endpoint and the state
\* of the pools, it ends with a (version, connection) pair or a typed error,
\* also when the acquire hands back a Spawner.
C11_CallNeverPanics == last.res # "Panic"

----------------------------------------------------------------------------
\* One dial (PoolService::make_exclusive, mod.rs 116-240) followed by the
\* request phase of Request::send (request.rs 191-269) on the connection it
\* produced.

\* Number of socket addresses a Connect can carry.
MaxAddrs == 2

Versions == {"HTTP_09", "HTTP_10", "HTTP_11", "HTTP_2", "HTTP_3"}

\* The variants of connect.uri, mod.rs 122-147.
UriKinds == {"Tcp", "Tls", "Unix"}

\* What the TLS connector can report as negotiated, mod.rs 134-139.
AlpnVersions == {"HTTP_11", "HTTP_2"}

\* connect.addrs(): per resolved address, whether the peer accepts there.
AddrLists == UNION { [1..n -> BOOLEAN] : n \in 0..MaxAddrs }

Pending == [tag |-> "Pending", kind |-> "none", what |-> "none", addr |-> 0]

Ok == [tag |-> "Ok", kind |-> "none", what |-> "none", addr |-> 0]

\* An error: its kind, for a timeout which one, for a connect error the
\* address it came from.
Err(kind, what, addr) == [tag |-> "Err", kind |-> kind, what |-> what, addr |-> addr]

\* The pools and their callers, untouched.
PoolUnused ==
    /\ pc = [t \in Tasks |-> "idle"]
    /\ key = [t \in Tasks |-> NoEndpoint]
    /\ variant = [t \in Tasks |-> "None"]
    /\ conn = [t \in Tasks |-> None]
    /\ destroy = [t \in Tasks |-> FALSE]
    /\ pool = EmptyPool
    /\ connKey = <<>>
    /\ proto = <<>>
    /\ fate = [c \in Conns |-> "none"]
    /\ last = NoReturn

poolVars == <<pc, key, variant, conn, destroy, pool, connKey, proto, fate, last>>

\* Request.timeout: the client's request_timeout (Request::new, request.rs
\* 36-41) or the d given to Request::timeout (request.rs 87-90).
RequestTimeouts == {"request_timeout", "d"}

\* The Connection variants a pooled connection can have, request.rs 195-247.
Variants == {"Tcp", "Tls", "Unix", "H2", "H3"}

\* request.rs 173-180: the timer is created with resolve_timeout when the pool
\* had no connection, and with the request's timeout otherwise.
FirstBudget(conn_is_none, timeout) ==
    IF conn_is_none THEN "resolve_timeout" ELSE timeout

\* request.rs 191-193: the timer is reset to the client's request_timeout for
\* the request phase.
RequestBudget(timeout) == "request_timeout"

\* The budgets of client.timeout_config and of PoolService, in clock ticks,
\* and the d a request may set for itself.
ResolveTimeout == 1
ConnectTimeout == 2
TlsConnectTimeout == 1
RequestTimeout == 2
CustomTimeout == 1

Duration(name) ==
    CASE name = "resolve_timeout" -> ResolveTimeout
      [] name = "connect_timeout" -> ConnectTimeout
      [] name = "tls_connect_timeout" -> TlsConnectTimeout
      [] name = "request_timeout" -> RequestTimeout
      [] OTHER -> CustomTimeout

\* A timer armed relative to the start of the send, to compare against.
ArmedFromStart(now, budget) == budget

\* tokio::time::sleep(dur) and timer.reset(Instant::now() + dur): the
\* deadline is dur after the present moment.
ArmedAt(now, budget) == now + budget

\* An address loop that re-arms the timer after each refused address, to
\* compare against.
DeadlineRearmed(deadline, now) == ArmedAt(now, ConnectTimeout)

\* make_tcp_inner, mod.rs 171-187: the loop over the addresses runs inside
\* the one timeout of mod.rs 159-163 and never touches the timer.
DeadlineAfterRefused(deadline, now) == deadline

\* The state after request.rs 180.  With no pooled connection make_exclusive
\* is entered with a Connect and req.version() as the expected version
\* (request.rs 184-185); with a pooled one the request phase follows.
DialInit ==
    /\ PoolUnused
    /\ resolve = NoResolve
    /\ tunnel = NoTunnel
    /\ body = NoBody
    /\ select = NoSelect
    /\ pg = NoPg
    /\ reuse = NoReuse
    /\ \/ \E u \in UriKinds, a \in AddrLists, v \in Versions, t \in RequestTimeouts :
             dial = [ phase    |-> "resolve",
                      uri      |-> u,
                      addrs    |-> a,
                      tried    |-> <<>>,
                      stream   |-> 0,
                      expected |-> v,
                      version  |-> v,
                      negotiated |-> "none",
                      alpn     |-> "none",
                      variant  |-> "none",
                      event    |-> "none",
                      result   |-> Pending,
                      conn_is_none |-> TRUE,
                      timeout  |-> t,
                      timer    |-> FirstBudget(TRUE, t),
                      now      |-> 0,
                      start    |-> 0,
                      deadline |-> ArmedAt(0, Duration(FirstBudget(TRUE, t))) ]
       \/ \E k \in Variants, v \in Versions, t \in RequestTimeouts :
             dial = [ phase    |-> "request",
                      uri      |-> IF k \in UriKinds THEN k ELSE "Tls",
                      addrs    |-> <<>>,
                      tried    |-> <<>>,
                      stream   |-> 0,
                      expected |-> v,
                      version  |-> v,
                      negotiated |-> "none",
                      alpn     |-> "none",
                      variant  |-> k,
                      event    |-> "none",
                      result   |-> Pending,
                      conn_is_none |-> FALSE,
                      timeout  |-> t,
                      timer    |-> FirstBudget(FALSE, t),
                      now      |-> 0,
                      start    |-> 0,
                      deadline |-> ArmedAt(0, Duration(FirstBudget(FALSE, t))) ]

\* A timeout that is always reported as the connect one, to compare against.
TimeoutKindAlwaysConnect(phase) == "Connect"

\* The TimeoutError an expired deadline is mapped to in each phase: mod.rs 163
\* and 231, mod.rs 139, request.rs 225, 244 and 267.
TimeoutKind(phase) ==
    CASE phase = "connect" -> "Connect"
      [] phase = "tls" -> "TlsHandshake"
      [] OTHER -> "Request"

\* fut.timeout(timer).await.map_err(|_| TimeoutError::X)??: the deadline's
\* expiry becomes the phase's timeout, anything else is what fut returned.
Timed(elapsed, phase, inner) ==
    IF elapsed THEN Err("Timeout", TimeoutKind(phase), 0) ELSE inner

\* A dial that gives up at the first address that fails, to compare against.
AfterRefusedGiveUp(i, n) == "return"

\* make_tcp_inner, mod.rs 181-184: after address i of n failed, the loop goes
\* on with the next address if there is one and returns the error otherwise.
AfterRefused(i, n) == IF i < n THEN "next" ELSE "return"

\* The Connection variant the request phase matches on (request.rs 195-247)
\* for a dial of uri that reported version v: a TLS stream on which HTTP/2
\* was negotiated is used as an h2 connection (mod.rs 114-115).
ConnectionVariant(uri, v) == IF uri = "Tls" /\ v = "HTTP_2" THEN "H2" ELSE uri

\* A request phase that never rewrites the version, to compare against.
SendVersionUnchanged(kind, v) == v

\* request.rs 196-212 and 231: the version the request carries when it is
\* handed to the protocol's send routine.
SendVersion(kind, v) ==
    CASE kind \in {"Tcp", "Tls"} -> IF v \in {"HTTP_2", "HTTP_3"} THEN "HTTP_11" ELSE v
      [] kind = "Unix" -> v
      [] kind = "H2" -> "HTTP_2"
      [] OTHER -> "HTTP_3"

\* A make_exclusive that reports the expected version whatever the connector
\* negotiated, to compare against.
ReturnedVersionExpected(uri, expected, negotiated) == expected

\* make_exclusive, mod.rs 122-147: the version in the returned pair is the
\* connector's for a TLS target and expected_version for the others.
ReturnedVersion(uri, expected, negotiated) ==
    IF uri = "Tls" THEN negotiated ELSE expected

\* make_exclusive returns Ok((conn, v)): the request phase follows.
Connected(d, v) ==
    [d EXCEPT !.phase = "request", !.negotiated = v,
              !.variant = ConnectionVariant(d.uri, v), !.event = "ready"]

\* The dial or the request ends with result r.
Finished(d, r, ev) == [d EXCEPT !.phase = "done", !.result = r, !.event = ev]

\* Arming the shared timer with the budget called name: the phase that
\* follows starts now.
Armed(d, name) ==
    [d EXCEPT !.timer = name, !.start = d.now,
              !.deadline = ArmedAt(d.now, Duration(name))]

\* make_tcp, mod.rs 155-157, and make_unix, mod.rs 216-218: connecting starts
\* with the timer reset to connect_timeout.
ConnectStart ==
    /\ dial.phase = "resolve"
    /\ dial' = [Armed(dial, "connect_timeout") EXCEPT !.phase = "connect"]
    /\ UNCHANGED <<poolVars, resolve, tunnel, body, select, pg, reuse>>

\* Time passes while a phase is in progress and its deadline is ahead.
Tick ==
    /\ dial.phase \in {"resolve", "connect", "tls", "sending"}
    /\ dial.now < dial.deadline
    /\ dial' = [dial EXCEPT !.now = @ + 1]
    /\ UNCHANGED <<poolVars, resolve, tunnel, body, select, pg, reuse>>

\* make_tcp_inner, mod.rs 171-187: no address at all is a ResolveError;
\* otherwise the next address in list order is tried.
TcpConnect ==
    /\ dial.phase = "connect" /\ dial.uri \in {"Tcp", "Tls"}
    /\ LET n == Len(dial.addrs)
           i == Len(dial.tried) + 1
           d == [dial EXCEPT !.tried = Append(@, i)]
       IN
       dial' = IF n = 0
               THEN Finished(dial, Timed(FALSE, "connect", Err("Resolve", "none", 0)), "ready")
               ELSE IF dial.addrs[i]
               THEN (IF dial.uri = "Tcp"
                     THEN Connected([d EXCEPT !.stream = i],
                                    ReturnedVersion("Tcp", dial.expected, "none"))
                     ELSE [Armed(d, "tls_connect_timeout") EXCEPT
                              !.stream = i, !.phase = "tls", !.event = "ready"])
               ELSE IF AfterRefused(i, n) = "next"
               THEN [d EXCEPT !.deadline = DeadlineAfterRefused(@, dial.now)]
               ELSE Finished(d, Timed(FALSE, "connect", Err("Io", "none", i)), "ready")
    /\ UNCHANGED <<poolVars, resolve, tunnel, body, select, pg, reuse>>

\* make_unix, mod.rs 211-234.
UnixConnect(ok) ==
    /\ dial.phase = "connect" /\ dial.uri = "Unix"
    /\ dial' = IF ok
               THEN Connected(dial, ReturnedVersion("Unix", dial.expected, "none"))
               ELSE Finished(dial, Timed(FALSE, "connect", Err("Io", "none", 0)), "ready")
    /\ UNCHANGED <<poolVars, resolve, tunnel, body, select, pg, reuse>>

\* mod.rs 130-141: the connector's handshake ends, with the negotiated version
\* or with its error.
TlsHandshake(ok, v) ==
    /\ dial.phase = "tls"
    /\ dial' = IF ok
               THEN Connected([dial EXCEPT !.alpn = v],
                              ReturnedVersion(dial.uri, dial.expected, v))
               ELSE Finished(dial, Timed(FALSE, "tls", Err("Io", "none", 0)), "ready")
    /\ UNCHANGED <<poolVars, resolve, tunnel, body, select, pg, reuse>>

\* request.rs 195-212: the version is settled before the request is sent.
RequestStart ==
    /\ dial.phase = "request"
    /\ dial' = [Armed(dial, RequestBudget(dial.timeout)) EXCEPT
                  !.phase = "sending",
                  !.version = SendVersion(dial.variant, @)]
    /\ UNCHANGED <<poolVars, resolve, tunnel, body, select, pg, reuse>>

\* request.rs 214-222 and 249-264: the send ends before the deadline.
RequestDone(ok) ==
    /\ dial.phase = "sending"
    /\ dial' = Finished(dial, Timed(FALSE, "sending",
                                    IF ok THEN Ok ELSE Err("Proto", "none", 0)), "ready")
    /\ UNCHANGED <<poolVars, resolve, tunnel, body, select, pg, reuse>>

\* The shared timer expires in the phase in progress: mod.rs 163, 231, 139
\* and request.rs 223-226, 265-268.
Deadline ==
    /\ dial.phase \in {"connect", "tls", "sending"}
    /\ dial.now >= dial.deadline
    /\ dial' = Finished(dial, Timed(TRUE, dial.phase, Pending), "deadline")
    /\ UNCHANGED <<poolVars, resolve, tunnel, body, select, pg, reuse>>

DialNext ==
    \/ ConnectStart
    \/ Tick
    \/ TcpConnect
    \/ \E ok \in BOOLEAN : UnixConnect(ok)
    \/ \E ok \in BOOLEAN, v \in AlpnVersions : TlsHandshake(ok, v)
    \/ RequestStart
    \/ \E ok \in BOOLEAN : RequestDone(ok)
    \/ Deadline

DialSpec == DialInit /\ [][DialNext]_vars

----------------------------------------------------------------------------
\* C12: a deadline that expires is reported as the timeout of the phase it
\* expired in (Connect while connecting over TCP or a Unix socket,
\* TlsHandshake during the handshake, Request while the request is sent) and
\* as nothing else; an operation that ends before the deadline, with an I/O
\* or protocol error or without one, is never reported as a timeout.
C12_TimeoutKinds ==
    [][(dial.phase # "done" /\ dial'.phase = "done") =>
          /\ dial'.event = "deadline" =>
                 /\ dial.phase = "connect" => dial'.result = Err("Timeout", "Connect", 0)
                 /\ dial.phase = "tls" => dial'.result = Err("Timeout", "TlsHandshake", 0)
                 /\ dial.phase = "sending" => dial'.result = Err("Timeout", "Request", 0)
          /\ dial'.event # "deadline" => dial'.result.kind # "Timeout"]_vars

\* The deadline expired during the TLS handshake.
C12_Witness ==
    /\ dial.phase = "done" /\ dial.uri = "Tls" /\ dial.stream # 0
    /\ dial.event = "deadline"
    /\ dial.result = Err("Timeout", "TlsHandshake", 0)

\* C13: the addresses are tried strictly in list order; the stream is that
\* of the first address that accepts, and no error of the addresses that
\* failed before it is surfaced; when every address has failed the error is
\* the one of the last address.
C13_AddressOrder ==
    dial.uri \in {"Tcp", "Tls"} =>
        /\ \A i \in DOMAIN dial.tried : dial.tried[i] = i
        /\ dial.stream # 0 =>
              /\ dial.addrs[dial.stream]
              /\ \A j \in 1..(dial.stream - 1) : ~dial.addrs[j]
              /\ Len(dial.tried) = dial.stream
              /\ dial.result.addr = 0 /\ dial.result.kind # "Resolve"
        /\ (dial.phase = "done" /\ dial.stream = 0 /\ dial.event = "ready"
               /\ dial.addrs # <<>>) =>
              /\ dial.result = Err("Io", "none", Len(dial.addrs))
              /\ Len(dial.tried) = Len(dial.addrs)
              /\ \A j \in DOMAIN dial.addrs : ~dial.addrs[j]

\* The first address refused, the second accepted, and the request succeeded
\* on the second.
C13_Witness ==
    /\ dial.uri = "Tcp" /\ Len(dial.addrs) = 2
    /\ dial.stream = 2 /\ dial.phase = "done" /\ dial.result = Ok

\* C14: a request sent over a Unix-domain connection is sent as HTTP/1.1,
\* whatever version the request specified.
C14_UnixAlwaysH1 ==
    (dial.variant = "Unix" /\ dial.phase \in {"sending", "done"}) =>
        dial.version = "HTTP_11"

\* C15: over a plain TCP or TLS stream a request that specifies HTTP/2 or
\* HTTP/3 is transmitted as HTTP/1.1, and a request of any other version
\* with its version unchanged.
C15_Downgrade ==
    (dial.variant \in {"Tcp", "Tls"} /\ dial.phase \in {"sending", "done"}) =>
        dial.version = (IF dial.expected \in {"HTTP_2", "HTTP_3"}
                        THEN "HTTP_11" ELSE dial.expected)

\* An HTTP/3 request is being sent over a TLS stream.
C15_Witness ==
    /\ dial.variant = "Tls" /\ dial.phase = "sending"
    /\ dial.expected = "HTTP_3" /\ dial.version = "HTTP_11"

----------------------------------------------------------------------------
\* One call of the default resolver (resolver.rs 20-67) and Endpoint::version
\* (endpoint.rs 13-25) asked of the endpoints it returned.

\* Number of addresses a lookup can return.
MaxIps == 2

Ips == {"A", "B"}

\* The default ports of resolver.rs 40-42.
HttpPort == 80

HttpsPort == 443

UnknownPort == 0

\* uri.scheme_str(): None, the four known schemes, unix, and an unknown one.
Schemes == {"none", "http", "ws", "https", "wss", "unix", "ftp"}

\* uri.port_u16(): no port, or an explicit one.
Ports == { {}, {HttpPort}, {HttpsPort}, {8080} }

\* uri.host() and uri.path_and_query(), where present.
Hosts == {"example.com", "run"}

Paths == {"/", "/app.sock/path"}

\* The user-info of the authority, where present.
UserInfos == {"none", "user"}

\* The URIs: host() and path_and_query() are present or not, and name one of
\* the hosts and paths when they are; an authority without a host has no
\* user-info.
Uris ==
    { u \in [scheme : Schemes, hasHost : BOOLEAN, port : Ports, hasPath : BOOLEAN,
             host : Hosts \cup {"none"}, path : Paths \cup {"none"},
             userinfo : UserInfos] :
        /\ u.hasHost <=> u.host # "none"
        /\ u.hasPath <=> u.path # "none"
        /\ u.userinfo # "none" => u.hasHost }

\* (host, port).to_socket_addrs(): an error, or the addresses in its order.
Lookups ==
    { [ok |-> FALSE, ips |-> <<>>] } \cup
    { [ok |-> TRUE, ips |-> s] : s \in UNION { [1..n -> Ips] : n \in 0..MaxIps } }

\* The Endpoint variants, endpoint.rs 6-10.
Secure(addr, version) == [kind |-> "Secure", addr |-> addr, version |-> version]

Address(addr, version) == [kind |-> "Address", addr |-> addr, version |-> version]

Unix(path) == [kind |-> "Unix", path |-> path, version |-> "none"]

\* A socket path that leaves the host out, to compare against.
UnixPathWithoutHost(uri) == <<"/", uri.path>>

\* resolver.rs 30-34: format!("/{}{}", host, path_and_query), kept as the
\* pieces that are concatenated.
UnixPath(uri) == <<"/", uri.host, uri.path>>

\* The decimal text of a port.
PortText(q) ==
    CASE q = HttpPort -> "80"
      [] q = HttpsPort -> "443"
      [] q = UnknownPort -> "0"
      [] OTHER -> "8080"

\* uri.authority().as_str(): the user-info and "@" if there is one, the host,
\* and ":" and the port if there is one.
Authority(uri) ==
    (IF uri.userinfo # "none" THEN <<uri.userinfo, "@">> ELSE <<>>)
        \o <<uri.host>>
        \o (IF uri.port # {} THEN <<":", PortText(CHOOSE q \in uri.port : TRUE)>> ELSE <<>>)

\* make_unix, mod.rs 222-226: format!("/{}{}", authority, path_and_query),
\* kept as the pieces that are concatenated.
MakeUnixPath(uri) == <<"/">> \o Authority(uri) \o <<uri.path>>

\* Endpoint::version with the stored version returned as it is, to compare
\* against.
EndpointVersionStored(e) == IF e.kind = "Unix" THEN "HTTP_11" ELSE e.version

\* Endpoint::version, endpoint.rs 13-25.
EndpointVersion(e) ==
    CASE e.kind = "Secure" -> e.version
      [] e.kind = "Address" ->
             (CASE e.version = "HTTP_2" -> "HTTP_2"
                [] e.version = "HTTP_3" -> "HTTP_3"
                [] OTHER -> "HTTP_11")
      [] OTHER -> "HTTP_11"

\* resolver.rs 39-43: the explicit port, else the scheme's default.
PortOf(uri) ==
    IF uri.port # {} THEN CHOOSE q \in uri.port : TRUE
    ELSE CASE uri.scheme \in {"http", "ws"} -> HttpPort
           [] uri.scheme \in {"https", "wss"} -> HttpsPort
           [] OTHER -> UnknownPort

\* Security read off the port alone, to compare against.
IsSecureByPort(scheme, port) == port = HttpsPort

\* Security read off the scheme alone, to compare against.
IsSecureByScheme(scheme, port) == scheme \in {"https", "wss"}

\* resolver.rs 45-49.
IsSecure(scheme, port) ==
    CASE scheme \in {"http", "ws"} -> FALSE
      [] scheme \in {"https", "wss"} -> TRUE
      [] OTHER -> port = HttpsPort

\* A resolver that looks at the scheme before the host, to compare against.
MissingComponentSchemeFirst(uri) ==
    IF uri.scheme = "none" THEN "MissingScheme"
    ELSE IF ~uri.hasHost THEN "MissingHost"
    ELSE IF uri.scheme = "unix" /\ ~uri.hasPath THEN "MissingPathQuery"
    ELSE "none"

\* resolver.rs 21-28: the InvalidUri the call fails with before any lookup.
MissingComponent(uri) ==
    IF ~uri.hasHost THEN "MissingHost"
    ELSE IF uri.scheme = "none" THEN "MissingScheme"
    ELSE IF uri.scheme = "unix" /\ ~uri.hasPath THEN "MissingPathQuery"
    ELSE "none"

\* resolver.rs 56-66: one endpoint per address, in the lookup's order.
EndpointsOf(uri, version, ips) ==
    [i \in DOMAIN ips |->
        IF IsSecure(uri.scheme, PortOf(uri))
        THEN Secure([ip |-> ips[i], port |-> PortOf(uri)], version)
        ELSE Address([ip |-> ips[i], port |-> PortOf(uri)], version)]

\* DefaultResolver::call: its result, and how many lookups it made.
ResolverCall(uri, version, lookup) ==
    IF MissingComponent(uri) # "none"
    THEN [out |-> Err("InvalidUri", MissingComponent(uri), 0), endpoints |-> <<>>, looked |-> 0]
    ELSE IF uri.scheme = "unix"
    THEN [out |-> Ok, endpoints |-> <<Unix(UnixPath(uri))>>, looked |-> 0]
    ELSE IF ~lookup.ok
    THEN [out |-> Err("Io", "none", 0), endpoints |-> <<>>, looked |-> 1]
    ELSE [out |-> Ok, endpoints |-> EndpointsOf(uri, version, lookup.ips), looked |-> 1]

ResolveInit ==
    /\ PoolUnused
    /\ dial = NoDial
    /\ tunnel = NoTunnel
    /\ body = NoBody
    /\ select = NoSelect
    /\ pg = NoPg
    /\ reuse = NoReuse
    /\ \E u \in Uris, v \in Versions, l \in Lookups :
          resolve = [ stage     |-> "input",
                      uri       |-> u,
                      version   |-> v,
                      lookup    |-> l,
                      out       |-> Pending,
                      endpoints |-> <<>>,
                      looked    |-> 0,
                      asked     |-> 0,
                      answer    |-> "none",
                      dialed    |-> <<>> ]

\* The resolver is called.
Resolve ==
    /\ resolve.stage = "input"
    /\ LET r == ResolverCall(resolve.uri, resolve.version, resolve.lookup) IN
       resolve' = [resolve EXCEPT !.stage = "resolved", !.out = r.out,
                                  !.endpoints = r.endpoints, !.looked = r.looked]
    /\ UNCHANGED <<poolVars, dial, tunnel, body, select, pg, reuse>>

\* version() is called on the i-th endpoint returned.
AskVersion(i) ==
    /\ resolve.stage = "resolved"
    /\ i \in DOMAIN resolve.endpoints
    /\ resolve' = [resolve EXCEPT !.asked = i,
                                  !.answer = EndpointVersion(resolve.endpoints[i])]
    /\ UNCHANGED <<poolVars, dial, tunnel, body, select, pg, reuse>>

\* make_unix dials the socket of the URI that resolved to a Unix endpoint.
DialUnix ==
    /\ resolve.stage = "resolved"
    /\ resolve.endpoints # <<>>
    /\ resolve.endpoints[1].kind = "Unix"
    /\ resolve.dialed = <<>>
    /\ resolve' = [resolve EXCEPT !.dialed = MakeUnixPath(resolve.uri)]
    /\ UNCHANGED <<poolVars, dial, tunnel, body, select, pg, reuse>>

ResolveNext ==
    \/ Resolve
    \/ DialUnix
    \/ \E i \in 1..MaxIps : AskVersion(i)

ResolveSpec == ResolveInit /\ [][ResolveNext]_vars

----------------------------------------------------------------------------
\* The endpoint version() was asked of, once it has been asked.
Asked == resolve.endpoints[resolve.asked]

HasAsked == resolve.stage = "resolved" /\ resolve.asked # 0

\* A version below HTTP/2 reads as HTTP/1.1, HTTP/2 and HTTP/3 as they are.
Normalized(v) == IF v \in {"HTTP_2", "HTTP_3"} THEN v ELSE "HTTP_11"

\* C16: version() of an Address endpoint is its stored version when that is
\* HTTP/2 or HTTP/3 and HTTP/1.1 for every other stored version; version() of
\* a Unix endpoint is HTTP/1.1.
C16_AddressUnixVersion ==
    HasAsked =>
        /\ Asked.kind = "Address" =>
               resolve.answer = (IF Asked.version = "HTTP_2" THEN "HTTP_2"
                                 ELSE IF Asked.version = "HTTP_3" THEN "HTTP_3"
                                 ELSE "HTTP_11")
        /\ Asked.kind = "Unix" => resolve.answer = "HTTP_11"

\* An Address endpoint that stores HTTP/1.0 has answered HTTP/1.1.
C16_Witness ==
    /\ HasAsked
    /\ Asked.kind = "Address" /\ Asked.version = "HTTP_10"
    /\ resolve.answer = "HTTP_11"

\* C17: version() of a Secure endpoint is its stored version when that is
\* HTTP/2 or HTTP/3, and HTTP/1.1 when the stored version is below HTTP/2,
\* as for Address endpoints.
C17_SecureVersion ==
    (HasAsked /\ Asked.kind = "Secure") => resolve.answer = Normalized(Asked.version)

\* The four schemes with a fixed security.
KnownScheme(s) == s \in {"http", "ws", "https", "wss"}

Resolved == resolve.stage = "resolved"

\* C18: for http and ws every endpoint is an Address one, for https and wss
\* a Secure one; its port is the URI's explicit port if it has one and
\* otherwise 80 for http and ws and 443 for https and wss; and it carries
\* the requested version.
C18_SchemeDefaults ==
    (Resolved /\ KnownScheme(resolve.uri.scheme)) =>
        \A i \in DOMAIN resolve.endpoints :
            LET e == resolve.endpoints[i]
                s == resolve.uri.scheme
            IN /\ e.kind = (IF s \in {"https", "wss"} THEN "Secure" ELSE "Address")
               /\ resolve.uri.port = {} =>
                      e.addr.port = (IF s \in {"https", "wss"} THEN 443 ELSE 80)
               /\ resolve.uri.port # {} => e.addr.port \in resolve.uri.port
               /\ e.version = resolve.version
               /\ e.addr.ip = resolve.lookup.ips[i]

\* http with the explicit port 443 has resolved to two endpoints.
C18_Witness ==
    /\ Resolved /\ resolve.uri.scheme = "http" /\ resolve.uri.port = {443}
    /\ resolve.out = Ok /\ Len(resolve.endpoints) = 2

\* C19: the call fails with MissingHost when the URI has no host (whether or
\* not it has a scheme), with MissingScheme when it has a host but no scheme,
\* with MissingPathQuery when the scheme is unix and there is no path; in
\* each case no lookup is made.
C19_InvalidUri ==
    Resolved =>
        LET u == resolve.uri IN
        /\ ~u.hasHost =>
               resolve.out = Err("InvalidUri", "MissingHost", 0) /\ resolve.looked = 0
        /\ (u.hasHost /\ u.scheme = "none") =>
               resolve.out = Err("InvalidUri", "MissingScheme", 0) /\ resolve.looked = 0
        /\ (u.hasHost /\ u.scheme = "unix" /\ ~u.hasPath) =>
               resolve.out = Err("InvalidUri", "MissingPathQuery", 0) /\ resolve.looked = 0

\* A URI with neither scheme nor host has been rejected.
C19_Witness ==
    /\ Resolved /\ ~resolve.uri.hasHost /\ resolve.uri.scheme = "none"
    /\ resolve.out.what = "MissingHost"

\* C20: when the lookup succeeds with no address, the call fails with a
\* resolution error and returns no empty endpoint list.
C20_NoAddresses ==
    (Resolved /\ resolve.looked > 0 /\ resolve.lookup.ok /\ resolve.lookup.ips = <<>>) =>
        resolve.out.tag = "Err"

\* C21: a unix-scheme URI with host and path resolves to exactly one
\* endpoint, a Unix one whose path is "/" followed by the URI's host and its
\* path, and no lookup is made.
C21_UnixEndpoint ==
    (Resolved /\ resolve.uri.scheme = "unix" /\ resolve.uri.hasHost /\ resolve.uri.hasPath) =>
        /\ resolve.out = Ok
        /\ Len(resolve.endpoints) = 1
        /\ resolve.endpoints[1].kind = "Unix"
        /\ resolve.endpoints[1].path = <<"/", resolve.uri.host, resolve.uri.path>>
        /\ resolve.looked = 0

\* unix://run/app.sock/path has been resolved, with a lookup that would have
\* answered two addresses.
C21_Witness ==
    /\ Resolved /\ resolve.uri.scheme = "unix"
    /\ resolve.uri.host = "run" /\ resolve.uri.path = "/app.sock/path"
    /\ Len(resolve.lookup.ips) = 2
    /\ Len(resolve.endpoints) = 1

----------------------------------------------------------------------------
\* C22: the request-transmission phase runs under the request's own timeout:
\* the d given to Request::timeout when one was given, the client's
\* request_timeout otherwise.
C22_RequestTimeout ==
    dial.phase = "sending" => dial.timer = dial.timeout

----------------------------------------------------------------------------
\* C23: when the response body of a successful HTTP/1.1 send without is_close
\* is consumed or dropped, the connection becomes idle under its key, and the
\* next send to that key takes an idle connection of the key (this one when
\* it is the only one) and goes on to the request phase without a dial.
C23_KeepAlive ==
    /\ [][\A t \in Tasks :
            (pc[t] = "body" /\ pc'[t] = "idle" /\ ~destroy[t])
            => /\ conn[t] \in Range(pool'.exclIdle[key[t]])
               /\ conn[t] \notin pool'.closed
               /\ last'.res = "Ok"]_vars
    /\ [][\A t \in Tasks, e \in Endpoints :
            (H1Endpoint(e) /\ pool.exclIdle[e] # <<>> /\ pc[t] = "idle" /\ key'[t] = e)
            => /\ pc'[t] = "send"
               /\ conn'[t] \in Range(pool.exclIdle[e])
               /\ Len(pool.exclIdle[e]) = 1 => conn'[t] = pool.exclIdle[e][1]
               /\ conn'[t] \notin Range(pool'.exclIdle[e])
               /\ connKey' = connKey]_vars

\* One caller's body was dropped unmarked and its connection is idle, while
\* nobody is dialling: the next send to the key finds it.
C23_Witness ==
    /\ last = [res |-> "Ok", destroy |-> FALSE]
    /\ \E e \in Endpoints :
          /\ H1Endpoint(e)
          /\ Len(pool.exclIdle[e]) = 1
          /\ ~pool.exclSpawning[e]
    /\ \A t \in Tasks : pc[t] = "idle"

----------------------------------------------------------------------------
(***************************************************************************)
(* Tunnel (client/src/tunnel.rs): one connection behind a std Mutex, used  *)
(* through the two halves split() hands out.  Each half runs on a task of  *)
(* its own; a call of a half locks the mutex, runs the inner operation and *)
(* releases the mutex when the statement ends.  The Leak implementations   *)
(* and the way a dropped tunnel returns its connection are not part of the *)
(* sources and follow the specification, section 4.7.                      *)
(***************************************************************************)
\* Number of items sent, and of items received, in one behaviour.
MaxItems == 2

Halves == {"sink", "stream"}

Polls == {"Pending", "Ready"}

\* tunnel.rs 85-99 and 112-114: the operations of the two halves, called in
\* the order the Sink contract prescribes: poll_ready until it is Ready,
\* start_send, poll_flush until it is Ready.
CallsOf(h, t) ==
    IF h = "stream"
    THEN (IF t.received < MaxItems THEN {"poll_next"} ELSE {})
    ELSE CASE t.send = "idle"    -> (IF t.sent < MaxItems THEN {"poll_ready"} ELSE {})
                                        \cup {"poll_close"}
           [] t.send = "polling" -> {"poll_ready"}
           [] t.send = "ready"   -> {"start_send"}
           [] t.send = "sent"    -> {"poll_flush"}
           [] OTHER              -> {}

\* start_send returns a Result, the other operations a Poll.
ReturnsOf(op) == IF op = "start_send" THEN {"Ready"} ELSE Polls

\* Where the current send stands after op returned r.
SendAfter(s, op, r) ==
    CASE op = "poll_ready"  -> IF r = "Ready" THEN "ready" ELSE "polling"
      [] op = "start_send"  -> "sent"
      [] op = "poll_flush"  -> IF r = "Ready" THEN "idle" ELSE "sent"
      [] op = "poll_close"  -> IF r = "Ready" THEN "closed" ELSE s
      [] OTHER              -> s

\* A lock() that never waits, to compare against.
LockGrantedAlways(l) == TRUE

\* std::sync::Mutex::lock, tunnel.rs 86-113: the call goes on when no one
\* holds the mutex and waits otherwise.
LockGranted(l) == l = "free"

\* A leaked connection that goes back to the pool all the same, to compare
\* against.
ReturnsToPoolAlways(c, leaked) == TRUE

\* Dropping the tunnel hands its connection back to the pool unless the
\* connection was leaked.
ReturnsToPool(c, leaked) == c \notin leaked

\* The tunnel wraps connection 1, checked out of the exclusive pool.
TunnelInit ==
    /\ pc = [t \in Tasks |-> "idle"]
    /\ key = [t \in Tasks |-> NoEndpoint]
    /\ variant = [t \in Tasks |-> "None"]
    /\ conn = [t \in Tasks |-> None]
    /\ destroy = [t \in Tasks |-> FALSE]
    /\ pool = EmptyPool
    /\ \E e \in Endpoints :
          H1Endpoint(e) /\ connKey = <<e>> /\ proto = <<ConnectionOf(e)>>
    /\ fate = [c \in Conns |-> "none"]
    /\ last = NoReturn
    /\ resolve = NoResolve
    /\ dial = NoDial
    /\ body = NoBody
    /\ select = NoSelect
    /\ pg = NoPg
    /\ reuse = NoReuse
    /\ tunnel = [ lock     |-> "free",
                  at       |-> [h \in Halves |-> "out"],
                  op       |-> [h \in Halves |-> "none"],
                  send     |-> "idle",
                  recv     |-> "idle",
                  done     |-> "none",
                  sent     |-> 0,
                  received |-> 0,
                  split    |-> FALSE,
                  held     |-> 1,
                  leaked   |-> {} ]

TunnelOnly ==
    <<pc, key, variant, conn, destroy, pool, connKey, proto, fate, last, resolve, dial, body,
      select, pg, reuse>>

\* Tunnel::split, tunnel.rs 132-134: the two halves borrow the tunnel.
TunnelSplit ==
    /\ tunnel.held # None
    /\ ~tunnel.split
    /\ tunnel' = [tunnel EXCEPT !.split = TRUE]
    /\ UNCHANGED TunnelOnly

\* Both halves are dropped between two calls; the borrow of the tunnel ends.
HalvesDrop ==
    /\ tunnel.split
    /\ \A h \in Halves : tunnel.at[h] = "out"
    /\ tunnel' = [tunnel EXCEPT !.split = FALSE,
                                !.send = "idle",
                                !.recv = "idle"]
    /\ UNCHANGED TunnelOnly

\* The task of half h calls op: it reaches inner.lock().
TunnelCall(h, op) ==
    /\ tunnel.split
    /\ tunnel.at[h] = "out"
    /\ op \in CallsOf(h, tunnel)
    /\ tunnel' = [tunnel EXCEPT !.at[h] = "lock",
                                !.op[h] = op,
                                !.send = IF op = "poll_ready" THEN "polling" ELSE @,
                                !.recv = IF op = "poll_next" THEN "polling" ELSE @]
    /\ UNCHANGED TunnelOnly

\* inner.lock().unwrap() returns the guard.
TunnelLock(h) ==
    /\ tunnel.at[h] = "lock"
    /\ LockGranted(tunnel.lock)
    /\ tunnel' = [tunnel EXCEPT !.lock = h, !.at[h] = "inner"]
    /\ UNCHANGED TunnelOnly

\* The inner operation returns r and the guard is dropped with the statement.
TunnelReturn(h, r) ==
    /\ tunnel.at[h] = "inner"
    /\ r \in ReturnsOf(tunnel.op[h])
    /\ LET op == tunnel.op[h]
           sendDone == op = "poll_flush" /\ r = "Ready"
           recvDone == op = "poll_next" /\ r = "Ready"
       IN
       tunnel' = [tunnel EXCEPT
                    !.lock = "free",
                    !.at[h] = "out",
                    !.op[h] = "none",
                    !.send = IF h = "sink" THEN SendAfter(@, op, r) ELSE @,
                    !.recv = IF recvDone THEN "idle" ELSE @,
                    !.sent = IF sendDone THEN @ + 1 ELSE @,
                    !.received = IF recvDone THEN @ + 1 ELSE @,
                    !.done = CASE sendDone -> "send"
                               [] recvDone -> "recv"
                               [] OTHER -> @]
    /\ UNCHANGED TunnelOnly

\* Tunnel::leak, tunnel.rs 140-147: the tunnel is taken by value, so no half
\* is alive; the inner value is replaced by its leaked form.
TunnelLeak ==
    /\ tunnel.held # None
    /\ ~tunnel.split
    /\ tunnel.held \notin tunnel.leaked
    /\ tunnel' = [tunnel EXCEPT !.leaked = @ \cup {tunnel.held}]
    /\ UNCHANGED TunnelOnly

\* The tunnel is dropped, and its inner value with it; d is the handle's
\* destroy_on_drop flag.
TunnelDrop(d) ==
    /\ tunnel.held # None
    /\ ~tunnel.split
    /\ LET c == tunnel.held IN
       pool' = IF ReturnsToPool(c, tunnel.leaked)
               THEN PoolAfterConnDrop(pool, "Exclusive", connKey[c], c, d)
               ELSE [pool EXCEPT !.closed = @ \cup {c}]
    /\ tunnel' = [tunnel EXCEPT !.held = None]
    /\ UNCHANGED <<pc, key, variant, conn, destroy, connKey, proto, fate, last, resolve, dial, body, select, pg, reuse>>

\* A later acquire for the tunnel's key: an idle connection, or a new dial.
TunnelAcquire ==
    /\ tunnel.held = None
    /\ LET e == connKey[1]
           out == AcquireOutput(pool, e)
           c == Len(connKey) + 1
       IN
       \/ /\ out = "Conn"
          /\ pool' = PoolAfterAcquire(pool, e)
          /\ tunnel' = [tunnel EXCEPT !.held = AcquiredConn(pool, e)]
          /\ UNCHANGED <<connKey, proto>>
       \/ /\ out = "Spawner"
          /\ Len(connKey) < MaxConns
          /\ pool' = PoolAfterSpawned(PoolAfterAcquire(pool, e), "ExclSpawner", e, c, 0)
          /\ connKey' = Append(connKey, e)
          /\ proto' = Append(proto, ConnectionOf(e))
          /\ tunnel' = [tunnel EXCEPT !.held = c]
    /\ UNCHANGED <<pc, key, variant, conn, destroy, fate, last, resolve, dial, body, select, pg, reuse>>

TunnelNext ==
    \/ TunnelSplit
    \/ HalvesDrop
    \/ \E h \in Halves, op \in {"poll_ready", "start_send", "poll_flush", "poll_close", "poll_next"} :
          TunnelCall(h, op)
    \/ \E h \in Halves : TunnelLock(h)
    \/ \E h \in Halves, r \in Polls : TunnelReturn(h, r)
    \/ TunnelLeak
    \/ \E d \in BOOLEAN : TunnelDrop(d)
    \/ TunnelAcquire

TunnelSpec == TunnelInit /\ [][TunnelNext]_vars

\* The halves whose operation is executing on the inner connection.
Executing == { h \in Halves : tunnel.at[h] = "inner" }

\* C24: on a split tunnel no two operations execute on the inner connection at
\* the same time; an operation holds the tunnel's mutex from before its first
\* step on the inner connection until it returns.
C24_OneAtATime ==
    /\ [](Cardinality(Executing) <= 1)
    /\ [](\A h \in Halves : tunnel.at[h] = "inner" <=> tunnel.lock = h)
    /\ [][\A h \in Halves :
            (tunnel.lock = h /\ tunnel'.lock # h)
            => tunnel.at[h] = "inner" /\ tunnel'.at[h] = "out"]_vars

\* The sink's operation is executing while the stream's call waits for the
\* mutex.
C24_Witness ==
    /\ tunnel.lock = "sink"
    /\ tunnel.at["sink"] = "inner"
    /\ tunnel.at["stream"] = "lock"

\* C25 as stated: while a send is pending (started and not yet completed) no
\* receive proceeds, while a receive is pending no send proceeds, and
\* completed sends and receives strictly alternate.
C25_StrictAlternation ==
    [][/\ (tunnel.send \in {"polling", "ready", "sent"} /\ tunnel.at["stream"] # "inner")
          => tunnel'.at["stream"] # "inner"
       /\ (tunnel.recv = "polling" /\ tunnel.at["sink"] # "inner")
          => tunnel'.at["sink"] # "inner"
       /\ tunnel'.sent = tunnel.sent + 1 => tunnel.done # "send"
       /\ tunnel'.received = tunnel.received + 1 => tunnel.done # "recv"]_vars

\* C25: while an operation of one half is executing, no operation of the
\* other half starts executing; a half that is between two calls holds no
\* mutex, whatever its last call returned.
C25_BlocksWhileExecuting ==
    /\ [][\A h \in Halves, g \in Halves :
            (g # h /\ tunnel.at[g] = "inner" /\ tunnel.at[h] = "lock")
            => tunnel'.at[h] = "lock"]_vars
    /\ [](\A h \in Halves : tunnel.at[h] \in {"out", "lock"} => tunnel.lock # h)

\* A send is pending, its last call has returned, and the receive executes.
C25_Witness ==
    /\ tunnel.send \in {"polling", "ready", "sent"}
    /\ tunnel.at["sink"] = "out"
    /\ tunnel.at["stream"] = "inner"

\* C26: a leaked connection stays leaked, is never idle in a pool, and no
\* acquire returns it once its tunnel is gone.
C26_LeakDetaches ==
    /\ [](\A c \in tunnel.leaked : ~IdleInPool(c))
    /\ [][\A c \in tunnel.leaked :
            /\ c \in tunnel'.leaked
            /\ tunnel.held # c => tunnel'.held # c]_vars

\* A leaked tunnel was dropped and a later acquire got another connection.
C26_Witness ==
    /\ tunnel.held # None
    /\ \E c \in tunnel.leaked : c # tunnel.held /\ c \in pool.closed

----------------------------------------------------------------------------
(***************************************************************************)
(* ResponseBody (actix-http-alt/src/body.rs): None, Bytes { bytes } or     *)
(* Stream { stream }, polled through Stream::poll_next and asked is_eof(). *)
(* The wrapped stream is a finite list of items, each a chunk or an error  *)
(* of the protocol, and any poll of it may find it not ready.              *)
(***************************************************************************)
\* Longest byte content of one chunk.
MaxLen == 2
\* Most items a wrapped stream yields.
MaxChunks == 2

ByteValues == {"x", "y"}

BytesOf == UNION { [1..n -> ByteValues] : n \in 0..MaxLen }

InnerErrors == {"E"}

\* Items of a stream: Ok(bytes), or Err(e) with the error in the wrapped
\* stream's type (unified = FALSE) or in BodyError (unified = TRUE).
Chunk(b) == [tag |-> "Ok", bytes |-> b, err |-> "none", unified |-> FALSE]

InnerErr(e) == [tag |-> "Err", bytes |-> <<>>, err |-> e, unified |-> FALSE]

NoItem == [tag |-> "none", bytes |-> <<>>, err |-> "none", unified |-> FALSE]

Items == { Chunk(b) : b \in BytesOf } \cup { InnerErr(e) : e \in InnerErrors }

Streams == UNION { [1..n -> Items] : n \in 0..MaxChunks }

\* body.rs 113: map_err(From::from) on the polled item.
MapErr(item) == IF item.tag = "Err" THEN [item EXCEPT !.unified = TRUE] ELSE item

\* A Bytes body that stays as it is when polled, to compare against.
AfterBytesPollKeeps(b) == b

\* body.rs 109: project_replace(ResponseBody::None).
AfterBytesPoll(b) == [b EXCEPT !.kind = "None", !.bytes = <<>>]

\* An is_eof that takes the bytes, to compare against.
AfterIsEofTakes(b) == IF b.kind = "Bytes" THEN AfterBytesPoll(b) ELSE b

\* body.rs 69: is_eof borrows the body immutably.
AfterIsEof(b) == b

\* ResponseBody::is_eof, body.rs 69-75.
IsEof(b) ==
    CASE b.kind = "None"   -> TRUE
      [] b.kind = "Bytes"  -> b.bytes = <<>>
      [] b.kind = "Stream" -> FALSE

Polled(tag, item) == [tag |-> tag, item |-> item]

\* ResponseBody::poll_next, body.rs 106-115; ready says whether the wrapped
\* stream has something to report at this poll.
PollNext(b, ready) ==
    CASE b.kind = "None" ->
             [body |-> b, poll |-> Polled("ReadyNone", NoItem)]
      [] b.kind = "Bytes" ->
             [body |-> AfterBytesPoll(b), poll |-> Polled("ReadySome", Chunk(b.bytes))]
      [] b.kind = "Stream" ->
             IF ~ready
             THEN [body |-> b, poll |-> Polled("Pending", NoItem)]
             ELSE IF b.stream = <<>>
                  THEN [body |-> b, poll |-> Polled("ReadyNone", NoItem)]
                  ELSE [body |-> [b EXCEPT !.stream = Tail(@)],
                        poll |-> Polled("ReadySome", MapErr(Head(b.stream)))]

\* What polling the body to its end still delivers.
Remaining(b) ==
    CASE b.kind = "None"   -> <<>>
      [] b.kind = "Bytes"  -> <<Chunk(b.bytes)>>
      [] b.kind = "Stream" -> [i \in 1..Len(b.stream) |-> MapErr(b.stream[i])]

NewBody(kind, bytes, stream) ==
    LET b == [kind |-> kind, bytes |-> bytes, stream |-> stream] IN
    [ kind     |-> kind,
      bytes    |-> bytes,
      stream   |-> stream,
      origKind |-> kind,
      orig     |-> Remaining(b),
      out      |-> <<>>,
      last     |-> Polled("none", NoItem),
      eof      |-> {},
      step     |-> "new" ]

\* body.rs 45-54, 78-80, 118-128: the three ways a body is built.
BodyInit ==
    /\ PoolUnused
    /\ resolve = NoResolve
    /\ dial = NoDial
    /\ tunnel = NoTunnel
    /\ select = NoSelect
    /\ pg = NoPg
    /\ reuse = NoReuse
    /\ \/ body = NewBody("None", <<>>, <<>>)
       \/ \E b \in BytesOf : body = NewBody("Bytes", b, <<>>)
       \/ \E s \in Streams : body = NewBody("Stream", <<>>, s)

\* One poll_next.
BodyPoll(ready) ==
    /\ LET r == PollNext(body, ready) IN
       body' = [r.body EXCEPT
                  !.out = IF r.poll.tag = "ReadySome" THEN Append(@, r.poll.item) ELSE @,
                  !.last = r.poll,
                  !.step = "poll"]
    /\ UNCHANGED <<poolVars, resolve, dial, tunnel, select, pg, reuse>>

\* One is_eof.
BodyIsEof ==
    /\ body' = [AfterIsEof(body) EXCEPT !.eof = {IsEof(body)}, !.step = "is_eof"]
    /\ UNCHANGED <<poolVars, resolve, dial, tunnel, select, pg, reuse>>

BodyNext ==
    \/ \E ready \in BOOLEAN : BodyPoll(ready)
    \/ BodyIsEof

BodySpec == BodyInit /\ [][BodyNext]_vars

\* C27: the first poll of a Bytes body yields its whole content as one chunk
\* and leaves the body None; a poll of a None body returns end-of-stream and
\* leaves it None; a poll of a Stream body returns what the wrapped stream
\* returns, with an error turned into the unified body error; the content of
\* a Bytes body is delivered exactly once.
C27_PollNext ==
    /\ [][body'.step = "poll" =>
            CASE body.kind = "Bytes" ->
                     /\ body'.last = Polled("ReadySome", Chunk(body.bytes))
                     /\ body'.kind = "None"
              [] body.kind = "None" ->
                     /\ body'.last.tag = "ReadyNone"
                     /\ body'.kind = "None"
                     /\ body'.out = body.out
              [] body.kind = "Stream" ->
                     /\ body'.kind = "Stream"
                     /\ \/ body'.last.tag = "Pending" /\ body'.stream = body.stream
                        \/ /\ body.stream = <<>>
                           /\ body'.last.tag = "ReadyNone"
                           /\ body'.stream = <<>>
                        \/ /\ body.stream # <<>>
                           /\ body'.last.tag = "ReadySome"
                           /\ body'.stream = Tail(body.stream)
                           /\ LET inner == Head(body.stream)
                                  got == body'.last.item
                              IN /\ got.tag = inner.tag
                                 /\ got.bytes = inner.bytes
                                 /\ got.err = inner.err
                                 /\ got.unified = (inner.tag = "Err")]_vars
    /\ [](body.origKind = "Bytes" =>
            /\ Len(body.out) <= 1
            /\ body.kind = "None" <=> Len(body.out) = 1
            /\ body.out \o Remaining(body) = body.orig)

\* A Bytes body with content was polled twice: one chunk, then end-of-stream.
C27_Witness ==
    /\ body.origKind = "Bytes"
    /\ Len(body.out) = 1
    /\ body.out[1].bytes # <<>>
    /\ body.last.tag = "ReadyNone"

\* C28: is_eof leaves the body as it is and answers true for None, true for
\* Bytes exactly when the bytes are empty and false for Stream, exhausted or
\* not; what has been delivered plus what is still to come is the original
\* content, however many is_eof calls were made in between.
C28_IsEofPure ==
    /\ [][(body'.step = "is_eof" /\ body' # body) =>
            /\ body'.kind = body.kind
            /\ body'.bytes = body.bytes
            /\ body'.stream = body.stream
            /\ body'.out = body.out
            /\ body'.last = body.last
            /\ body'.eof = { \/ body.kind = "None"
                             \/ body.kind = "Bytes" /\ Len(body.bytes) = 0 }]_vars
    /\ [](body.out \o Remaining(body) = body.orig)

\* is_eof answered false on a Bytes body with content, and the poll after it
\* delivered that content.
C28_Witness ==
    /\ body.origKind = "Bytes"
    /\ body.eof = {FALSE}
    /\ body.step = "poll"
    /\ Len(body.out) = 1
    /\ body.out[1].bytes # <<>>

----------------------------------------------------------------------------
\* Request::send with the two errors that can end it before a request is
\* written: request.rs 165, Uri::try_parse fails; request.rs 185, the dial
\* finds no address to connect to (make_tcp_inner, mod.rs 171-174).
SendInvalidUri(t) ==
    /\ pc[t] = "idle"
    /\ last' = [res |-> "InvalidUri", destroy |-> FALSE]
    /\ UNCHANGED <<pc, key, variant, conn, destroy, pool, connKey, proto, fate, others>>

ResolveFail(t) ==
    /\ pc[t] = "dial"
    /\ Returned(t, "Resolve", destroy[t])
    /\ UNCHANGED <<connKey, proto, fate, others>>

UriNext ==
    \/ \E t \in Tasks, e \in Endpoints : SendAcquire(t, e)
    \/ \E t \in Tasks : SendRetry(t)
    \/ \E t \in Tasks : DialOk(t)
    \/ \E t \in Tasks, err \in DialErrors : DialFail(t, err)
    \/ \E t \in Tasks, o \in SendOutcomes : SendDone(t, o)
    \/ \E t \in Tasks : BodyDrop(t)
    \/ \E t \in Tasks : SendInvalidUri(t)
    \/ \E t \in Tasks : ResolveFail(t)

UriSpec == Init /\ [][UriNext]_vars

\* C29: a send that ends with InvalidUri or with a resolution error has made
\* no pool acquire: the caller holds nothing of a pool when the error is
\* returned, and the step that returns it leaves both pools as they are.
C29_NoAcquireBeforeError ==
    [][last'.res \in {"InvalidUri", "Resolve"} =>
         /\ pool' = pool
         /\ \A t \in Tasks : pc'[t] # pc[t] => variant[t] = "None"]_vars

----------------------------------------------------------------------------
\* Callers of PoolService::call next to callers of send whose requests
\* succeed, with dials that succeed, fail, or end on HTTP/1.1 for a key of the
\* shared pool; a connection is destroyed when the owner a call gave it to
\* marks it.
VersionNext ==
    \/ \E t \in Tasks, e \in Endpoints : SendAcquire(t, e)
    \/ \E t \in Tasks : SendRetry(t)
    \/ \E t \in Tasks : DialOk(t)
    \/ \E t \in Tasks : DialFallback(t)
    \/ \E t \in Tasks, err \in DialErrors : DialFail(t, err)
    \/ \E t \in Tasks : SendDone(t, "Ok")
    \/ \E t \in Tasks : BodyDrop(t)
    \/ \E t \in Tasks, e \in Endpoints : Call(t, e)
    \/ \E t \in Tasks : CallRetry(t)
    \/ \E t \in Tasks, d \in BOOLEAN : OwnerDrop(t, d)

VersionSpec == Init /\ [][VersionNext]_vars

\* The connections resident in the shared pool.
SharedResidents == { pool.sharedConn[e] : e \in Endpoints } \ {None}

----------------------------------------------------------------------------
\* C31: for a plain TCP target make_exclusive returns the expected version
\* and no handshake has run; for a TLS target it returns the version the
\* connector negotiated, whatever was expected; the request is then handed to
\* the h2 routine exactly when HTTP/2 was negotiated, and a request of
\* HTTP/1.1 or above is sent with the negotiated version.
C31_NegotiatedVersion ==
    /\ [][(dial.phase \in {"connect", "tls"} /\ dial'.phase = "request") =>
            /\ dial.uri = "Tcp" =>
                  /\ dial.phase = "connect"
                  /\ dial'.alpn = "none"
                  /\ dial'.negotiated = dial.expected
            /\ dial.uri = "Tls" =>
                  /\ dial.phase = "tls"
                  /\ dial'.alpn \in AlpnVersions
                  /\ dial'.negotiated = dial'.alpn]_vars
    /\ []((dial.uri = "Tls" /\ dial.alpn # "none") =>
            /\ dial.variant = "H2" <=> dial.negotiated = "HTTP_2"
            /\ (dial.phase = "sending" /\ dial.expected \in {"HTTP_11", "HTTP_2", "HTTP_3"})
                  => dial.version = dial.negotiated)

\* HTTP/2 was expected, the handshake ended on HTTP/1.1, and the request is
\* being sent as HTTP/1.1.
C31_Witness ==
    /\ dial.uri = "Tls" /\ dial.expected = "HTTP_2"
    /\ dial.alpn = "HTTP_11" /\ dial.negotiated = "HTTP_11"
    /\ dial.phase = "sending" /\ dial.version = "HTTP_11"

\* The budget the code gives the phase: connect_timeout while connecting,
\* tls_connect_timeout during the handshake, the request budget while the
\* request is sent.
BudgetOf(phase) ==
    CASE phase = "connect" -> ConnectTimeout
      [] phase = "tls" -> TlsConnectTimeout
      [] OTHER -> RequestTimeout

\* C32: the one timer is re-armed as each phase begins, to the moment of
\* the beginning plus the budget of the phase: while connecting, handshaking
\* or sending, the deadline is the start of the phase plus its budget,
\* whatever time the earlier phases took, and the timer expires in a phase
\* exactly when the phase has lasted its whole budget.
C32_PhaseBudgets ==
    /\ [](dial.phase \in {"connect", "tls", "sending"} =>
            /\ dial.start <= dial.now
            /\ dial.deadline = dial.start + BudgetOf(dial.phase))
    /\ [][(dial'.phase \in {"connect", "tls", "sending"} /\ dial'.phase # dial.phase) =>
            /\ dial'.start = dial.now /\ dial'.now = dial.now
            /\ dial'.deadline = dial.now + BudgetOf(dial'.phase)]_vars
    /\ [][(dial.phase # "done" /\ dial'.phase = "done" /\ dial'.event = "deadline") =>
            dial.now - dial.start = BudgetOf(dial.phase)]_vars

\* Connecting and the handshake took time, and the request still has its
\* whole budget: it is being sent at a moment a timer armed when the send
\* began would have expired.
C32_Witness ==
    /\ dial.phase = "sending" /\ dial.uri = "Tls"
    /\ dial.start >= ConnectTimeout
    /\ dial.now > dial.start /\ dial.now < dial.deadline
    /\ dial.now > RequestTimeout

\* C33: the deadline armed when make_tcp starts covers the whole address
\* list: it is not moved by an address that refuses, and when it expires
\* the dial ends with the Connect timeout at once, the remaining addresses
\* untried and nothing dialed again; the next address is tried only after
\* the one before it failed to connect.
C33_ConnectDeadline ==
    /\ [](dial.phase = "connect" => dial.deadline = dial.start + ConnectTimeout)
    /\ [][(dial.phase = "connect" /\ dial'.phase = "connect") =>
            /\ dial'.start = dial.start
            /\ dial'.tried # dial.tried =>
                  /\ dial'.tried = Append(dial.tried, Len(dial.tried) + 1)
                  /\ ~dial.addrs[Len(dial.tried) + 1]]_vars
    /\ [][(dial.phase = "connect" /\ dial'.phase = "done" /\ dial'.event = "deadline") =>
            /\ dial'.result = Err("Timeout", "Connect", 0)
            /\ dial'.tried = dial.tried /\ dial'.stream = 0]_vars
    /\ [][dial.phase = "done" => dial' = dial]_vars

\* The deadline expired after the first of two addresses had refused: the
\* second was never tried.
C33_Witness ==
    /\ dial.uri = "Tcp" /\ Len(dial.addrs) = 2 /\ Len(dial.tried) = 1
    /\ dial.phase = "done" /\ dial.event = "deadline"
    /\ dial.result = Err("Timeout", "Connect", 0)
    /\ dial.now = dial.start + ConnectTimeout

\* C34: for a URI whose scheme is none of http, ws, https, wss and unix,
\* every endpoint the resolver returns carries the explicit port of the URI,
\* or 0 when the URI has none, and is Secure exactly when that port is 443
\* and Address otherwise.
C34_UnknownScheme ==
    (resolve.stage = "resolved"
        /\ resolve.uri.scheme \notin {"http", "ws", "https", "wss", "unix"}) =>
        \A i \in DOMAIN resolve.endpoints :
            LET e == resolve.endpoints[i] IN
            /\ e.kind \in {"Secure", "Address"}
            /\ resolve.uri.port = {} => e.addr.port = 0
            /\ resolve.uri.port # {} => e.addr.port \in resolve.uri.port
            /\ e.kind = "Secure" <=> e.addr.port = 443

\* An ftp URI with the explicit port 443 resolved to a Secure endpoint.
C34_Witness ==
    /\ resolve.stage = "resolved" /\ resolve.uri.scheme = "ftp"
    /\ resolve.uri.port = {HttpsPort}
    /\ Len(resolve.endpoints) > 0
    /\ resolve.endpoints[1].kind = "Secure"

-----------------------------------------------------------------------------
\* The endpoint selector: the candidates' states and the default policy.

MaxCands == 2

MaxLoad == 2

MaxTime == 2

\* The window after which an Error entry expires.
Cooldown == 2

\* EndpointState, endpoint.rs 28-33: Existing(n), Connecting(n), NotExisting
\* and Error(since).
Existing(n) == [state |-> "Existing", n |-> n]

Connecting(n) == [state |-> "Connecting", n |-> n]

NotExisting == [state |-> "NotExisting", n |-> 0]

Error(since) == [state |-> "Error", n |-> since]

EndpointStates ==
    { Existing(n) : n \in 0..MaxLoad } \cup { Connecting(n) : n \in 0..MaxLoad }
        \cup { NotExisting } \cup { Error(t) : t \in 0..MaxTime }

\* An Error entry is in its cooldown until the window has elapsed.
InCooldown(s, now) == s.state = "Error" /\ now - s.n < Cooldown

\* Error entries that never expire, to compare against.
RankNoExpiry(s, now) ==
    CASE s.state = "Existing" -> 0
      [] s.state = "Connecting" -> 1
      [] s.state = "NotExisting" -> 2
      [] OTHER -> 3

\* The default policy's order of preference: Existing, then Connecting,
\* then NotExisting (an Error entry whose cooldown has elapsed is eligible
\* again), and an Error entry in its cooldown last.
Rank(s, now) ==
    CASE s.state = "Existing" -> 0
      [] s.state = "Connecting" -> 1
      [] s.state = "NotExisting" -> 2
      [] InCooldown(s, now) -> 3
      [] OTHER -> 2

\* The load compared within a rank: active requests, or queued waiters.
Load(s) == IF s.state \in {"Existing", "Connecting"} THEN s.n ELSE 0

\* The candidates the default policy may pick: those of the best rank and,
\* within it, of the least load.
Best(cands, now) ==
    { i \in DOMAIN cands :
        \A j \in DOMAIN cands :
            \/ Rank(cands[i], now) < Rank(cands[j], now)
            \/ /\ Rank(cands[i], now) = Rank(cands[j], now)
               /\ Load(cands[i]) <= Load(cands[j]) }

SelectInit ==
    /\ PoolUnused
    /\ resolve = NoResolve
    /\ dial = NoDial
    /\ tunnel = NoTunnel
    /\ body = NoBody
    /\ pg = NoPg
    /\ reuse = NoReuse
    /\ \E cs \in UNION { [1..n -> EndpointStates] : n \in 1..MaxCands } :
          select = [stage |-> "input", cands |-> cs, now |-> MaxTime, chosen |-> 0]

\* Time passes before the selection: an Error entry may leave its cooldown.
SelectWait ==
    /\ select.stage = "input"
    /\ select.now < MaxTime + Cooldown
    /\ select' = [select EXCEPT !.now = @ + 1]
    /\ UNCHANGED <<poolVars, resolve, dial, tunnel, body, pg, reuse>>

\* The selector picks a candidate.
Select(i) ==
    /\ select.stage = "input"
    /\ i \in Best(select.cands, select.now)
    /\ select' = [select EXCEPT !.stage = "chosen", !.chosen = i]
    /\ UNCHANGED <<poolVars, resolve, dial, tunnel, body, pg, reuse>>

SelectNext ==
    \/ SelectWait
    \/ \E i \in 1..MaxCands : Select(i)

SelectSpec == SelectInit /\ [][SelectNext]_vars

\* The candidates in the state st, and those in their cooldown.
InState(st) == { i \in DOMAIN select.cands : select.cands[i].state = st }

Cooling == { i \in DOMAIN select.cands : InCooldown(select.cands[i], select.now) }

\* C35: the candidate chosen is an Existing one with the fewest active
\* requests if there is any, otherwise a Connecting one with the fewest
\* queued waiters, otherwise one that is NotExisting or whose Error has
\* outlived the cooldown; an Error entry in its cooldown is chosen only when
\* every candidate is one.
C35_DefaultSelector ==
    select.stage = "chosen" =>
        LET c == select.cands[select.chosen] IN
        /\ InState("Existing") # {} =>
              /\ c.state = "Existing"
              /\ \A j \in InState("Existing") : c.n <= select.cands[j].n
        /\ (InState("Existing") = {} /\ InState("Connecting") # {}) =>
              /\ c.state = "Connecting"
              /\ \A j \in InState("Connecting") : c.n <= select.cands[j].n
        /\ (InState("Existing") = {} /\ InState("Connecting") = {}
               /\ InState("NotExisting") # {}) =>
              select.chosen \notin Cooling
        /\ select.chosen \in Cooling => Cooling = DOMAIN select.cands

\* An Error entry whose cooldown has elapsed was chosen over one still in
\* its cooldown.
C35_Witness ==
    /\ select.stage = "chosen" /\ Len(select.cands) = 2
    /\ \A i \in DOMAIN select.cands : select.cands[i].state = "Error"
    /\ Cooling # {} /\ select.chosen \notin Cooling

-----------------------------------------------------------------------------
\* The postgres Pool: execute on &str, on a StatementQuery and on an array
\* or Vec of StatementQuery (src/postgres/src/pool/execute.rs).

MaxStmts == 3

MaxRows == 1

PgConns == {1, 2}

\* The receivers of execute: a &str and a StatementQuery are one statement,
\* an array or a Vec any number of them.
PgInputs ==
    { [kind |-> "str", n |-> 1], [kind |-> "stmt", n |-> 1] }
        \cup { [kind |-> "iter", n |-> k] : k \in 0..MaxStmts }

\* What happened, in order: the connection taken from the pool, a statement
\* sent on it, a statement that failed to be sent, the connection dropped
\* back into the pool, a result awaited.
PgEvent(ev, i, c) == [ev |-> ev, i |-> i, c |-> c]

\* A batch that keeps its connection until the results are in, as
\* query_iter_with_pool does, to compare against.
HeldAcrossAwaitIter(kind) == kind = "iter"

\* execute.rs 24-29, 83-88, 221-228: the connection lives in an inner block
\* that ends before the execution future is awaited.
HeldAcrossAwait(kind) == FALSE

\* execute.rs 26: execute on a &str returns its future without awaiting and
\* without `?`; execute on a StatementQuery is awaited with `?` (85, 225).
SendCanFail(kind) == kind # "str"

PgInit ==
    /\ PoolUnused
    /\ resolve = NoResolve
    /\ dial = NoDial
    /\ tunnel = NoTunnel
    /\ body = NoBody
    /\ select = NoSelect
    /\ reuse = NoReuse
    /\ \E in \in PgInputs :
          pg = [ pc      |-> "start",
                 kind    |-> in.kind,
                 n       |-> in.n,
                 idle    |-> PgConns,
                 held    |-> {},
                 sent    |-> 0,
                 awaited |-> 0,
                 num     |-> 0,
                 log     |-> <<>>,
                 result  |-> "pending" ]

\* The connection held, if any, is dropped: it goes back to the pool.
PgDropped(p) ==
    [p EXCEPT !.idle = @ \cup p.held, !.held = {},
              !.log = @ \o [i \in 1..Cardinality(p.held) |->
                                PgEvent("release", 0, CHOOSE c \in p.held : TRUE)]]

\* The future ends with r; whatever it still holds is dropped.
PgReturned(p, r) == [PgDropped(p) EXCEPT !.pc = "done", !.result = r]

\* The inner block has ended with every statement sent.
PgAllSent(p) ==
    IF p.n = 0
    THEN PgReturned(p, "Ok")
    ELSE IF HeldAcrossAwait(p.kind)
    THEN [p EXCEPT !.pc = "awaiting"]
    ELSE [PgDropped(p) EXCEPT !.pc = "awaiting"]

\* pool.get().await?, execute.rs 25, 84, 222.
PgGet(ok, c) ==
    /\ pg.pc = "start"
    /\ c \in pg.idle
    /\ pg' = IF ~ok
             THEN PgReturned(pg, "Err")
             ELSE LET p == [pg EXCEPT !.idle = @ \ {c}, !.held = {c}, !.pc = "sending",
                                      !.log = Append(@, PgEvent("get", 0, c))]
                  IN IF p.n = 0 THEN PgAllSent(p) ELSE p
    /\ UNCHANGED <<poolVars, resolve, dial, tunnel, body, select, reuse>>

\* self.execute(&conn), execute.rs 26; self.execute(&mut conn).await?, 85;
\* stmt.execute(&mut conn).await? in the loop, 224-227.
PgSend(ok) ==
    /\ pg.pc = "sending"
    /\ ok \/ SendCanFail(pg.kind)
    /\ LET i == pg.sent + 1
           c == CHOOSE x \in pg.held : TRUE
       IN
       pg' = IF ~ok
             THEN PgReturned([pg EXCEPT !.log = Append(@, PgEvent("fail", i, c))], "Err")
             ELSE LET p == [pg EXCEPT !.sent = i, !.log = Append(@, PgEvent("send", i, c))]
                  IN IF i = pg.n THEN PgAllSent(p) ELSE p
    /\ UNCHANGED <<poolVars, resolve, dial, tunnel, body, select, reuse>>

\* The execution futures are awaited in order, execute.rs 29, 88, 230-235.
PgAwait(ok, rows) ==
    /\ pg.pc = "awaiting"
    /\ LET j == pg.awaited + 1
           p == [pg EXCEPT !.awaited = j, !.log = Append(@, PgEvent("await", j, 0))]
       IN
       pg' = IF ~ok
             THEN PgReturned(p, "Err")
             ELSE IF j = pg.n
             THEN PgReturned([p EXCEPT !.num = @ + rows], "Ok")
             ELSE [p EXCEPT !.num = @ + rows]
    /\ UNCHANGED <<poolVars, resolve, dial, tunnel, body, select, reuse>>

PgNext ==
    \/ \E ok \in BOOLEAN, c \in PgConns : PgGet(ok, c)
    \/ \E ok \in BOOLEAN : PgSend(ok)
    \/ \E ok \in BOOLEAN, rows \in 0..MaxRows : PgAwait(ok, rows)

PgSpec == PgInit /\ [][PgNext]_vars

\* The positions of the log where ev happened.
PgAt(ev) == { k \in DOMAIN pg.log : pg.log[k].ev = ev }

\* C36: the connection taken for an execute is back in the pool before any
\* result is awaited, and by then every statement has been sent; the
\* statements of a batch are sent in order on the one connection taken,
\* which is held until the last is sent; and the connection is back in the
\* pool when sending a statement failed and whenever the execute has ended.
C36_ReleaseBeforeAwait ==
    /\ \A a \in PgAt("await") : \E r \in PgAt("release") : r < a
    /\ \A a \in PgAt("await"), s \in PgAt("send") \cup PgAt("release") : s < a
    /\ (pg.pc = "awaiting" \/ PgAt("await") # {}) =>
          /\ pg.held = {} /\ pg.idle = PgConns
          /\ pg.sent = pg.n
    /\ Cardinality(PgAt("get")) <= 1 /\ Cardinality(PgAt("release")) <= 1
    /\ \A k \in PgAt("send") \cup PgAt("fail") :
          /\ \E g \in PgAt("get") : g < k /\ pg.log[g].c = pg.log[k].c
          /\ \A r \in PgAt("release") : k < r
          /\ pg.log[k].i = Cardinality({ s \in PgAt("send") : s < k }) + 1
    /\ PgAt("fail") # {} => (pg.held = {} /\ PgAt("release") # {} /\ PgAt("await") = {})
    /\ pg.pc = "done" => (pg.held = {} /\ pg.idle = PgConns)

\* A batch of two was sent in order on one connection, which was back in
\* the pool while the first result was awaited.
C36_Witness ==
    /\ pg.pc = "awaiting" /\ pg.kind = "iter" /\ pg.n = 2
    /\ pg.awaited = 1 /\ pg.held = {}
    /\ Len(pg.log) = 5 /\ pg.log[4].ev = "release"

-----------------------------------------------------------------------------
\* Scheduling of a whole send: besides the dial, the request phase ends (it
\* runs under the timer of request.rs 191-226, which expires if nothing
\* else happens), and the caller consumes or drops the response body.
SendFairness ==
    \A t \in Tasks :
        /\ WF_vars(\E o \in SendOutcomes : SendDone(t, o))
        /\ WF_vars(BodyDrop(t))

SendFairSpec == Spec /\ Fairness /\ SendFairness

\* C37: a caller that holds a handle of the pool (the Spawner of a dial, or
\* a connection) lets go of it on every path, and no key stays in the
\* dialing state; in the step in which the handle goes, a Spawner's key is
\* no longer dialing, an exclusive connection is idle in its key's queue or
\* closed, and a shared connection has one handle less or is closed.
C37_CheckoutResolved ==
    /\ \A t \in Tasks : (variant[t] # "None") ~> (variant[t] = "None" /\ pc[t] = "idle")
    /\ \A e \in Endpoints :
          (pool.exclSpawning[e] \/ pool.sharedSpawning[e])
              ~> (~pool.exclSpawning[e] /\ ~pool.sharedSpawning[e])
    /\ [][\A t \in Tasks : (variant[t] # "None" /\ variant'[t] = "None") =>
            /\ variant[t] = "ExclSpawner" => ~pool'.exclSpawning[key[t]]
            /\ variant[t] = "SharedSpawner" => ~pool'.sharedSpawning[key[t]]
            /\ variant[t] = "Exclusive" =>
                  \/ conn[t] \in pool'.closed
                  \/ \E i \in DOMAIN pool'.exclIdle[key[t]] :
                        pool'.exclIdle[key[t]][i] = conn[t]
            /\ variant[t] = "Shared" =>
                  \/ conn[t] \in pool'.closed
                  \/ pool'.refs[conn[t]] = pool.refs[conn[t]] - 1]_vars

\* Every caller holds a handle at once: one dials, one sends, one holds a
\* response body.
C37_Witness ==
    /\ \E t \in Tasks : pc[t] = "dial" /\ variant[t] # "None"
    /\ \E t \in Tasks : pc[t] = "body" /\ variant[t] = "Exclusive"

-----------------------------------------------------------------------------
\* PoolService::call on endpoints whose pooled connection was established
\* earlier: the version it returns with the connection.

\* The endpoints called: TLS ones up to HTTP/1.1, HTTP/2 and HTTP/3, plain
\* ones up to HTTP/1.0 and HTTP/1.1.
ReuseKeys ==
    { [kind |-> "Secure", max_http_version |-> v] : v \in {"HTTP_11", "HTTP_2", "HTTP_3"} }
        \cup { [kind |-> "Address", max_http_version |-> v] : v \in {"HTTP_10", "HTTP_11"} }

\* The versions a connection pooled under endpoint e can have negotiated:
\* HTTP/3 or, when the HTTP/3 attempt failed, HTTP/2 for an HTTP/3 endpoint;
\* HTTP/2 for an HTTP/2 endpoint (a handshake that ends on HTTP/1.1 leaves
\* nothing in the shared pool); the ALPN answer HTTP/1.1 for a TLS endpoint of
\* the exclusive pool; the expected version over plain TCP.
Established(e) ==
    CASE e.max_http_version = "HTTP_3" -> {"HTTP_3", "HTTP_2"}
      [] e.max_http_version = "HTTP_2" -> {"HTTP_2"}
      [] e.kind = "Secure" -> {ReturnedVersion("Tls", e.max_http_version, "HTTP_11")}
      [] OTHER -> {ReturnedVersion("Tcp", e.max_http_version, "none")}

\* mod.rs 56-57 and 63-65: the version returned with a pooled connection is
\* endpoint.max_http_version.
CallVersion(e, negotiated) == e.max_http_version

ReuseInit ==
    /\ PoolUnused
    /\ resolve = NoResolve
    /\ dial = NoDial
    /\ tunnel = NoTunnel
    /\ body = NoBody
    /\ select = NoSelect
    /\ pg = NoPg
    /\ reuse = [ stage    |-> "used",
                 pooled   |-> [e \in ReuseKeys |-> "none"],
                 key      |-> NoEndpoint,
                 out      |-> "none",
                 version  |-> "none",
                 conn     |-> "none" ]

\* A connection for endpoint e is established and pooled under e.
Establish(e, v) ==
    /\ reuse.stage = "used"
    /\ reuse.pooled[e] = "none"
    /\ v \in Established(e)
    /\ reuse' = [reuse EXCEPT !.pooled[e] = v, !.key = NoEndpoint, !.out = "none",
                              !.version = "none", !.conn = "none"]
    /\ UNCHANGED <<poolVars, resolve, dial, tunnel, body, select, pg>>

\* PoolService::call, mod.rs 53-73: the pooled connection with a version, or
\* the panic of line 73 when the pool hands back a Spawner.
ReuseCall(e) ==
    /\ reuse.stage = "used"
    /\ reuse' = IF reuse.pooled[e] = "none"
                THEN [reuse EXCEPT !.key = e, !.out = "Panic", !.version = "none",
                                   !.conn = "none"]
                ELSE [reuse EXCEPT !.key = e,
                                   !.out = IF UseShared(e) THEN "Shared" ELSE "Exclusive",
                                   !.version = CallVersion(e, reuse.pooled[e]),
                                   !.conn = reuse.pooled[e]]
    /\ UNCHANGED <<poolVars, resolve, dial, tunnel, body, select, pg>>

ReuseNext ==
    \/ \E e \in ReuseKeys, v \in Versions : Establish(e, v)
    \/ \E e \in ReuseKeys : ReuseCall(e)

ReuseSpec == ReuseInit /\ [][ReuseNext]_vars

\* C38: the version PoolService::call returns with a pooled connection is
\* the version that connection negotiated when it was established.
C38_ReturnsNegotiated ==
    reuse.out \in {"Shared", "Exclusive"} => reuse.version = reuse.conn

\* C39: when is_eof has just answered true, the poll that follows returns
\* end-of-stream and delivers no chunk, whatever the body is, a Bytes body
\* of zero bytes included.
C39_EofThenEnd ==
    [][(body.step = "is_eof" /\ body.eof = {TRUE} /\ body'.step = "poll") =>
          /\ body'.last.tag = "ReadyNone"
          /\ body'.out = body.out]_vars

\* C40: for a unix-scheme URI the path make_unix dials is the path the
\* resolver stored in the Unix endpoint, whatever the authority carries.
C40_SameSocketPath ==
    (resolve.stage = "resolved" /\ resolve.dialed # <<>>) =>
        resolve.endpoints[1].path = resolve.dialed

====
